---------------------------- MODULE Spec2Model ----------------------------
(***************************************************************************)
(* A model of teltochronicle.py: the changelog parser, the release         *)
(* ordering, the version descriptor and the release-history synthesizer    *)
(* (process_model / import_sdks_into_git) working on a git repository.     *)
(*                                                                         *)
(* Python strings are sequences of one-character strings, so that split,   *)
(* strip, replace and the regular expressions of the source are computed   *)
(* on the characters, as the source computes them.                         *)
(***************************************************************************)
EXTENDS Integers, Sequences, FiniteSets, TLC

(***************************************************************************)
(* Bounds of the model.                                                    *)
(***************************************************************************)
\* Releases in one changelog document handed to process_model.
MaxReleases == 3
\* Runs of process_model on the same repository.
MaxRuns == 2
\* Markup events fed to the changelog parser.
MaxEvents == 10
\* Releases handed to sorted_firmwares_by_date on its own.
MaxSorted == 3
\* Dot-components of a version string handed to derive_sdk_path_parts on its
\* own.
MaxComps == 3
\* List events fed to the changelog parser inside one version's changelog, and
\* the nesting of its lists.
MaxListEvents == 15
MaxDepth == 3

\* Levels and children per node of the changelog trees that are rendered.
MaxLevels == 3
MaxChildren == 2

(***************************************************************************)
(* Python string helpers.                                                  *)
(***************************************************************************)
Digits == {"0", "1", "2", "3", "4", "5", "6", "7", "8", "9"}

Whitespace == {" "}

\* int() of one decimal digit.
DigitVal(c) ==
    CASE c = "0" -> 0 [] c = "1" -> 1 [] c = "2" -> 2 [] c = "3" -> 3
      [] c = "4" -> 4 [] c = "5" -> 5 [] c = "6" -> 6 [] c = "7" -> 7
      [] c = "8" -> 8 [] c = "9" -> 9

RECURSIVE int(_)
\* int(s) for a non-empty string of decimal digits.
int(s) ==
    IF Len(s) = 0 THEN 0
    ELSE 10 * int(SubSeq(s, 1, Len(s) - 1)) + DigitVal(s[Len(s)])

isdigits(s) == Len(s) > 0 /\ \A k \in 1..Len(s) : s[k] \in Digits

RECURSIVE lstrip(_, _)
\* s.lstrip(chars)
lstrip(s, chars) ==
    IF Len(s) > 0 /\ s[1] \in chars THEN lstrip(Tail(s), chars) ELSE s

RECURSIVE rstrip(_, _)
rstrip(s, chars) ==
    IF Len(s) > 0 /\ s[Len(s)] \in chars
    THEN rstrip(SubSeq(s, 1, Len(s) - 1), chars) ELSE s

\* s.strip()
strip(s) == rstrip(lstrip(s, Whitespace), Whitespace)

\* s[k:k+len(sub)] == sub
MatchAt(s, sub, k) ==
    /\ k + Len(sub) - 1 <= Len(s)
    /\ \A j \in 1..Len(sub) : s[k + j - 1] = sub[j]

\* sub in s
Contains(s, sub) == \E k \in 1..(Len(s) + 1) : MatchAt(s, sub, k)

\* Index of the first occurrence of sub in s, 0 when there is none.
Find(s, sub) ==
    IF Contains(s, sub)
    THEN CHOOSE k \in 1..(Len(s) + 1) :
            MatchAt(s, sub, k) /\ \A j \in 1..(k - 1) : ~MatchAt(s, sub, j)
    ELSE 0

RECURSIVE split(_, _)
\* s.split(sep) for a one-character separator: empty parts are kept.
split(s, sep) ==
    LET k == Find(s, <<sep>>) IN
    IF k = 0 THEN <<s>>
    ELSE <<SubSeq(s, 1, k - 1)>> \o split(SubSeq(s, k + 1, Len(s)), sep)

\* s.split(sep, 1)
split1(s, sep) ==
    LET k == Find(s, <<sep>>) IN
    IF k = 0 THEN <<s>>
    ELSE <<SubSeq(s, 1, k - 1), SubSeq(s, k + 1, Len(s))>>

RECURSIVE split_ws(_)
\* s.split(): split on runs of whitespace, no empty parts.
split_ws(s) ==
    LET t == lstrip(s, Whitespace)
        ws == {k \in 1..Len(t) : t[k] \in Whitespace}
    IN  IF Len(t) = 0 THEN << >>
        ELSE IF ws = {} THEN <<t>>
        ELSE LET k == CHOOSE k \in ws : \A j \in ws : k <= j
             IN  <<SubSeq(t, 1, k - 1)>> \o split_ws(SubSeq(t, k + 1, Len(t)))

RECURSIVE join(_, _)
\* sep.join(parts)
join(parts, sep) ==
    IF Len(parts) = 0 THEN << >>
    ELSE IF Len(parts) = 1 THEN parts[1]
    ELSE parts[1] \o sep \o join(Tail(parts), sep)

\* s.replace(old, new, 1)
replace1(s, old, new) ==
    LET k == Find(s, old) IN
    IF k = 0 THEN s
    ELSE SubSeq(s, 1, k - 1) \o new \o SubSeq(s, k + Len(old), Len(s))

\* s.replace(c, d) for one-character c and d
replace_char(s, c, d) == [k \in 1..Len(s) |-> IF s[k] = c THEN d ELSE s[k]]

RECURSIVE DropEmpty(_)
\* [x for x in s if x]
DropEmpty(s) ==
    IF Len(s) = 0 THEN << >>
    ELSE (IF s[1] # << >> THEN <<s[1]>> ELSE << >>) \o DropEmpty(Tail(s))

Range(s) == {s[k] : k \in 1..Len(s)}

(***************************************************************************)
(* String constants of the source.                                         *)
(***************************************************************************)
MARKER == <<"_", "R", "_">>

GPL_MARKER == <<"_", "R", "_", "G", "P", "L", "_">>

MASTER == <<"m", "a", "s", "t", "e", "r">>

STABLE == <<"s", "t", "a", "b", "l", "e">>

(***************************************************************************)
(* Version descriptor.                                                     *)
(***************************************************************************)
\* comp.lstrip("0") of each component, the empty ones left out.
StrippedComps(unified_full) ==
    LET comps == split(unified_full, ".")
    IN  DropEmpty([k \in 1..Len(comps) |-> lstrip(comps[k], {"0"})])

\* derive_sdk_path_parts: ok = FALSE stands for the ValueError.
derive_sdk_path_parts(version) ==
    LET parts == split(version, "_")
        unified_full == parts[Len(parts)]
        comps == StrippedComps(unified_full)
    IN  IF Len(parts) < 3
        THEN [ok |-> FALSE, product_code |-> << >>, unified_full |-> << >>,
              unified_short |-> << >>, gpl_version |-> << >>]
        ELSE [ok |-> TRUE,
              product_code |-> parts[1],
              unified_full |-> unified_full,
              unified_short |-> IF comps # << >> THEN join(comps, <<".">>)
                                ELSE unified_full,
              gpl_version |-> replace1(version, MARKER, GPL_MARKER)]

get_minor_from_unified_short(unified_short) ==
    LET parts == split(unified_short, ".") IN
    IF Len(parts) >= 2 THEN join(SubSeq(parts, 1, 2), <<".">>) ELSE parts[1]

(***************************************************************************)
(* Release dates: datetime.strptime(ds, "%Y.%m.%d") and datetime.min.      *)
(* A datetime is <<year, month, day>>.                                     *)
(***************************************************************************)
datetime_min == <<1, 1, 1>>

\* a < b for datetimes
DtLess(a, b) ==
    \/ a[1] < b[1]
    \/ a[1] = b[1] /\ a[2] < b[2]
    \/ a[1] = b[1] /\ a[2] = b[2] /\ a[3] < b[3]

\* %Y: \d\d\d\d
YearRe(y) == Len(y) = 4 /\ isdigits(y)

\* %m: 1[0-2]|0[1-9]|[1-9]
MonthRe(m) ==
    \/ Len(m) = 2 /\ m[1] = "1" /\ m[2] \in {"0", "1", "2"}
    \/ Len(m) = 2 /\ m[1] = "0" /\ m[2] \in Digits \ {"0"}
    \/ Len(m) = 1 /\ m[1] \in Digits \ {"0"}

\* %d: 3[0-1]|[1-2]\d|0[1-9]|[1-9]| [1-9]
DayRe(d) ==
    \/ Len(d) = 2 /\ d[1] = "3" /\ d[2] \in {"0", "1"}
    \/ Len(d) = 2 /\ d[1] \in {"1", "2"} /\ d[2] \in Digits
    \/ Len(d) = 2 /\ d[1] = "0" /\ d[2] \in Digits \ {"0"}
    \/ Len(d) = 1 /\ d[1] \in Digits \ {"0"}
    \/ Len(d) = 2 /\ d[1] = " " /\ d[2] \in Digits \ {"0"}

IsLeap(y) == (y % 4 = 0 /\ y % 100 # 0) \/ y % 400 = 0

DaysInMonth(y, m) ==
    IF m = 2 THEN (IF IsLeap(y) THEN 29 ELSE 28)
    ELSE IF m \in {4, 6, 9, 11} THEN 30 ELSE 31

\* datetime.strptime(ds, "%Y.%m.%d"): ok = FALSE stands for the ValueError
\* (no match of the format, year 0, or a day the month does not have).
strptime(ds) ==
    LET parts == split(ds, ".")
        bad == [ok |-> FALSE, dt |-> datetime_min]
    IN  IF Len(parts) # 3 THEN bad
        ELSE IF ~(YearRe(parts[1]) /\ MonthRe(parts[2]) /\ DayRe(parts[3]))
        THEN bad
        ELSE LET y == int(parts[1])
                 m == int(parts[2])
                 d == int(lstrip(parts[3], Whitespace))
             IN  IF y < 1 \/ d > DaysInMonth(y, m) THEN bad
                 ELSE [ok |-> TRUE, dt |-> <<y, m, d>>]

\* The sort key of one release: lines 393-400.
release_dt(fw) ==
    LET ds == strip(fw.release_date) IN
    IF ds # << >>
    THEN (IF strptime(ds).ok THEN strptime(ds).dt ELSE datetime_min)
    ELSE datetime_min

\* A variant of the insertion that puts an item in front of the items whose
\* key equals its own.
InsertBeforeEqualKeys(sorted, item) ==
    LET k == Cardinality({j \in 1..Len(sorted) : DtLess(sorted[j].dt, item.dt)})
    IN  SubSeq(sorted, 1, k) \o <<item>> \o SubSeq(sorted, k + 1, Len(sorted))

\* list.sort(key=...) is stable: an item goes behind every item whose key is
\* not greater than its own.
InsertByKey(sorted, item) ==
    LET k == Cardinality({j \in 1..Len(sorted) : ~DtLess(item.dt, sorted[j].dt)})
    IN  SubSeq(sorted, 1, k) \o <<item>> \o SubSeq(sorted, k + 1, Len(sorted))

RECURSIVE SortItems(_)
SortItems(unsorted) ==
    IF Len(unsorted) = 0 THEN << >>
    ELSE InsertByKey(SortItems(SubSeq(unsorted, 1, Len(unsorted) - 1)),
                     unsorted[Len(unsorted)])

\* sorted_firmwares_by_date: the (dt, version, fw) items of the mapping, which
\* is a sequence of records in insertion order, sorted by dt.
sorted_firmwares_by_date(fws) ==
    SortItems([k \in 1..Len(fws) |->
                  [dt |-> release_dt(fws[k]), version |-> fws[k].version,
                   fw |-> fws[k]]])

(***************************************************************************)
(* The git repository of one model: commits (numbered from 1, parent 0 for *)
(* a root commit), local branches and tags (name -> commit), HEAD (the     *)
(* checked-out branch, which is unborn while it has no ref), the index and *)
(* the working tree.  A tree is a set of <<file name, content>> pairs.     *)
(* The repository has no remotes and no ignore rules, archives unpack      *)
(* without error, and the release dates are ones git accepts as commit     *)
(* dates; the git commands the program issues then fail only where the     *)
(* operators below say so.                                                 *)
(***************************************************************************)
EmptyMap == [x \in {} |-> 0]

Put(f, k, v) == [x \in DOMAIN f \cup {k} |-> IF x = k THEN v ELSE f[x]]

\* Python's None where a string is expected.
None == << >>

\* The repository directory before "git init".
NoRepo ==
    [initialized |-> FALSE, commits |-> << >>, branches |-> EmptyMap,
     tags |-> EmptyMap, head |-> None, index |-> {}, worktree |-> {}]

\* git init (line 985): HEAD is the unborn default branch.
git_init(r) == [r EXCEPT !.initialized = TRUE, !.head = MASTER]

\* The tree of the commit HEAD points at; empty while HEAD is unborn.
head_tree(r) ==
    IF r.head \in DOMAIN r.branches
    THEN r.commits[r.branches[r.head]].tree ELSE {}

\* A variant that looks the name up among the branches.
repo_has_branch_named(r, tag) == tag \in DOMAIN r.branches

repo_has_tag(r, tag) == tag \in DOMAIN r.tags

branch_exists(r, branch) == branch \in DOMAIN r.branches

\* git rev-parse --abbrev-ref HEAD fails on an unborn HEAD: None.
get_current_branch(r) ==
    IF r.head \in DOMAIN r.branches THEN r.head ELSE None

\* git checkout <branch>: the index becomes the branch's tree; the files that
\* differ between the old and the new tree are written, the others keep their
\* state in the working tree (a deleted file stays deleted).  At every checkout
\* of the program the index equals the old tree and nothing is untracked.
checkout_branch(r, branch) ==
    LET target == r.commits[r.branches[branch]].tree
        old == head_tree(r)
    IN  [r EXCEPT !.head = branch,
                  !.index = target,
                  !.worktree = {e \in target : e \notin old}
                               \cup {e \in r.worktree : e \in target /\ e \in old}]

\* git checkout -b <branch>: a new branch at the commit of HEAD.
checkout_new_branch(r, branch) ==
    [r EXCEPT !.branches = Put(r.branches, branch, r.branches[r.head]),
              !.head = branch]

\* git checkout --orphan <branch>: HEAD becomes the unborn branch; index and
\* working tree are kept.
checkout_orphan_branch(r, branch) == [r EXCEPT !.head = branch]

\* A variant that removes nothing.
clear_nothing(r) == r

clear_repo_worktree(r) == [r EXCEPT !.worktree = {}]

\* shutil.move of every entry of the archive's root directory into the repo.
MoveInto(files, worktree) ==
    {e \in worktree : \A f \in files : f[1] # e[1]} \cup files

\* extract_sdk_into_repo: an archive is the sequence of its top-level entries,
\* each [isdir, files].
extract_sdk_into_repo(r, archive) ==
    IF Len(archive) # 1 THEN [ok |-> FALSE, repo |-> r]
    ELSE IF ~archive[1].isdir THEN [ok |-> FALSE, repo |-> r]
    ELSE [ok |-> TRUE,
          repo |-> [r EXCEPT !.worktree = MoveInto(archive[1].files, r.worktree)]]

\* git add -A .
git_add_all(r) == [r EXCEPT !.index = r.worktree]

\* A variant of the status that always reports changes.
status_never_clean(r) == FALSE

\* git status --porcelain prints nothing (after git add -A).
status_clean(r) == r.index = head_tree(r) /\ r.worktree = r.index

\* git commit -m message, dated by GIT_AUTHOR_DATE / GIT_COMMITTER_DATE.
git_commit(r, message, date) ==
    LET id == Len(r.commits) + 1
        parent == IF r.head \in DOMAIN r.branches THEN r.branches[r.head] ELSE 0
    IN  [r EXCEPT !.commits = Append(r.commits,
                                  [parent |-> parent, tree |-> r.index,
                                   message |-> message, date |-> date]),
                  !.branches = Put(r.branches, r.head, id)]

\* git tag <name>: a lightweight tag at HEAD.
git_tag(r, name) == [r EXCEPT !.tags = Put(r.tags, name, r.branches[r.head])]

SDK_PREFIX == <<"S", "D", "K", " ">>

(***************************************************************************)
(* Branch selection.                                                       *)
(***************************************************************************)
\* The characters of the model in ASCII order, for git's refname order.
Alphabet ==
    <<" ", ".", "0", "1", "2", "3", "4", "5", "6", "7", "8", "9",
      "B", "D", "G", "K", "L", "P", "R", "S", "T", "X", "Y", "_",
      "a", "b", "e", "l", "m", "r", "s", "t", "v", "w", "|">>

Ord(c) == CHOOSE k \in 1..Len(Alphabet) : Alphabet[k] = c

RECURSIVE StrLess(_, _)
\* a < b for strings
StrLess(a, b) ==
    IF Len(b) = 0 THEN FALSE
    ELSE IF Len(a) = 0 THEN TRUE
    ELSE IF a[1] # b[1] THEN Ord(a[1]) < Ord(b[1])
    ELSE StrLess(Tail(a), Tail(b))

RECURSIVE RefnameOrder(_)
\* git branch --format %(refname:short): the names in refname order.
RefnameOrder(names) ==
    IF names = {} THEN << >>
    ELSE LET first == CHOOSE n \in names : \A o \in names \ {n} : StrLess(n, o)
         IN  <<first>> \o RefnameOrder(names \ {first})

\* _branch_re = ^v([0-9]+)\.([0-9]+)$
branch_re_match(name) ==
    /\ Len(name) > 0
    /\ name[1] = "v"
    /\ LET groups == split(Tail(name), ".")
       IN  Len(groups) = 2 /\ isdigits(groups[1]) /\ isdigits(groups[2])

\* key(branch): (int(m.group(1)), int(m.group(2)))
branch_key(name) ==
    LET groups == split(Tail(name), ".") IN <<int(groups[1]), int(groups[2])>>

KeyLess(a, b) == a[1] < b[1] \/ (a[1] = b[1] /\ a[2] < b[2])

\* One insertion of branches.sort(key=key), which is stable.
InsertBranch(sorted, name) ==
    LET k == Cardinality({j \in 1..Len(sorted) :
                            ~KeyLess(branch_key(name), branch_key(sorted[j]))})
    IN  SubSeq(sorted, 1, k) \o <<name>> \o SubSeq(sorted, k + 1, Len(sorted))

RECURSIVE SortBranches(_)
SortBranches(names) ==
    IF Len(names) = 0 THEN << >>
    ELSE InsertBranch(SortBranches(SubSeq(names, 1, Len(names) - 1)),
                      names[Len(names)])

\* A variant that leaves the branches in the order of their names.
get_minor_branches_by_name(r) ==
    RefnameOrder({n \in DOMAIN r.branches : branch_re_match(n)})

get_sorted_minor_branches(r) ==
    SortBranches(RefnameOrder({n \in DOMAIN r.branches : branch_re_match(n)}))

\* create_or_checkout_minor_branch; the branch name is returned as HEAD.
\* A variant that starts an existing branch anew from the greatest line
\* (git checkout -B).
create_or_reset_minor_branch(r, minor) ==
    LET branch_name == <<"v">> \o minor
        branches == get_sorted_minor_branches(r)
    IN  IF branches # << >>
        THEN checkout_new_branch(checkout_branch(r, branches[Len(branches)]),
                                 branch_name)
        ELSE checkout_orphan_branch(r, branch_name)

create_or_checkout_minor_branch(r, minor) ==
    LET branch_name == <<"v">> \o minor
        branches == get_sorted_minor_branches(r)
    IN  IF branch_exists(r, branch_name)
        THEN (IF get_current_branch(r) # branch_name
              THEN checkout_branch(r, branch_name) ELSE r)
        ELSE IF branches # << >>
        THEN checkout_new_branch(checkout_branch(r, branches[Len(branches)]),
                                 branch_name)
        ELSE checkout_orphan_branch(r, branch_name)

\* A variant that resets the branch to the commit that is checked out.
reset_branch_to_head(r, branch, start_point) ==
    IF (branch \in DOMAIN r.branches /\ r.head = branch)
       \/ r.head \notin DOMAIN r.branches
    THEN [error |-> "CalledProcessError", repo |-> r]
    ELSE [error |-> "",
          repo |-> [r EXCEPT !.branches =
                               Put(r.branches, branch, r.branches[r.head])]]

\* reset_branch_to_start_point: git branch -f <branch> <tag>, which git
\* refuses for the branch that is checked out.
reset_branch_to_start_point(r, branch, start_point) ==
    IF (branch \in DOMAIN r.branches /\ r.head = branch)
       \/ start_point \notin DOMAIN r.tags
    THEN [error |-> "CalledProcessError", repo |-> r]
    ELSE [error |-> "",
          repo |-> [r EXCEPT !.branches =
                               Put(r.branches, branch, r.tags[start_point])]]

\* A variant that leaves the branch alone when the tag is missing.
update_branch_head_if_tagged(r, branch, version) ==
    LET info == derive_sdk_path_parts(version) IN
    IF ~info.ok THEN [error |-> "ValueError", repo |-> r]
    ELSE IF ~repo_has_tag(r, info.gpl_version)
    THEN [error |-> "", repo |-> r]
    ELSE reset_branch_to_start_point(r, branch, info.gpl_version)

\* update_branch_head_to_version: error names the exception raised, "" none.
update_branch_head_to_version(r, branch, version) ==
    LET info == derive_sdk_path_parts(version) IN
    IF ~info.ok THEN [error |-> "ValueError", repo |-> r]
    ELSE IF ~repo_has_tag(r, info.gpl_version)
    THEN [error |-> "AssertionError", repo |-> r]
    ELSE reset_branch_to_start_point(r, branch, info.gpl_version)

(***************************************************************************)
(* The inputs of the synthesizer: a catalogue of releases, each with the   *)
(* record the changelog parser yields for it, the answer of the firmware   *)
(* server to the download of its archive, the archive's top-level entries, *)
(* and what sdks_root holds for it from the start: nothing (""), a Git LFS  *)
(* pointer stub ("pointer") or the archive itself ("archive"), and whether  *)
(* the archive file is a gzip-compressed tar that tarfile can read.  A     *)
(* document is a sequence of distinct catalogue releases.                  *)
(***************************************************************************)
PRODUCT == <<"X", "_", "R", "_">>

D_2024_01_05 == <<"2", "0", "2", "4", ".", "0", "1", ".", "0", "5">>

D_2023_12_31 == <<"2", "0", "2", "3", ".", "1", "2", ".", "3", "1">>

D_TBD == <<"T", "B", "D">>

WARNING_TEXT == <<"w">>

TreeA == {<<"a", 1>>}

TreeB == {<<"a", 2>>, <<"b", 1>>}

Dir(files) == [isdir |-> TRUE, files |-> files]

File == [isdir |-> FALSE, files |-> {}]

Release(unified_full, release_date, warning) ==
    [heading |-> PRODUCT \o unified_full \o <<" ", "|", " ">> \o release_date,
     version |-> PRODUCT \o unified_full,
     release_date |-> release_date,
     warning |-> warning,
     tree |-> << >>]

Catalogue ==
    << [fw |-> Release(<<"0","7",".","0","9",".","1">>, D_TBD, << >>),
        server |-> "ok", archive |-> <<Dir(TreeA)>>, local |-> "", gzip |-> TRUE],
       [fw |-> Release(<<"0","7",".","1","0",".","1">>, D_2024_01_05, << >>),
        server |-> "ok", archive |-> <<Dir(TreeA)>>, local |-> "", gzip |-> TRUE],
       [fw |-> Release(<<"0","7",".","1","0",".","2">>, D_2024_01_05, << >>),
        server |-> "ok", archive |-> <<Dir(TreeB)>>, local |-> "", gzip |-> TRUE],
       [fw |-> Release(<<"0","0",".","0","6",".","0","1">>, D_2024_01_05, << >>),
        server |-> "ok", archive |-> <<Dir(TreeA)>>, local |-> "pointer", gzip |-> TRUE],
       [fw |-> Release(<<"0","7",".","1","0",".","3">>, D_2023_12_31, << >>),
        server |-> "ok", archive |-> <<Dir(TreeA), File>>, local |-> "", gzip |-> TRUE],
       [fw |-> Release(<<"0","7",".","0","9",".","2">>, D_2024_01_05, << >>),
        server |-> "ok", archive |-> <<File>>, local |-> "", gzip |-> TRUE],
       [fw |-> Release(<<"0","7",".","0","9",".","3">>, D_2024_01_05, WARNING_TEXT),
        server |-> "ok", archive |-> <<Dir(TreeB)>>, local |-> "archive", gzip |-> TRUE],
       [fw |-> Release(<<"0","7",".","1","1",".","1">>, << >>, << >>),
        server |-> "forbidden", archive |-> << >>, local |-> "", gzip |-> TRUE],
       [fw |-> Release(<<"0","7",".","0","9",".","4">>, D_2024_01_05, << >>),
        server |-> "ok", archive |-> << >>, local |-> "archive", gzip |-> FALSE] >>

\* Releases whose download fails in another way than with HTTP 403: with
\* another HTTP status (HTTPError), without a connection (URLError), or with
\* the connection lost while the body is read (ConnectionResetError from
\* resp.read()).
TransferCatalogue ==
    << [fw |-> Release(<<"0","7",".","1","2",".","1">>, D_2024_01_05, << >>),
        server |-> "http_error", archive |-> <<Dir(TreeA)>>, local |-> "",
        gzip |-> TRUE],
       [fw |-> Release(<<"0","7",".","1","2",".","2">>, D_2024_01_05, << >>),
        server |-> "url_error", archive |-> <<Dir(TreeA)>>, local |-> "",
        gzip |-> TRUE],
       [fw |-> Release(<<"0","7",".","1","2",".","3">>, D_2024_01_05, << >>),
        server |-> "reset", archive |-> <<Dir(TreeB)>>, local |-> "",
        gzip |-> TRUE] >>

\* All releases of the model.
Releases == Catalogue \o TransferCatalogue

\* The catalogue entry of a version.
Entry(version) ==
    Releases[CHOOSE k \in 1..Len(Releases) : Releases[k].fw.version = version]

\* The sequences of distinct catalogue indices of at most MaxReleases.
Docs ==
    UNION {{d \in [1..n -> 1..Len(Catalogue)] :
               \A a, b \in 1..n : a # b => d[a] # d[b]} : n \in 1..MaxReleases}

(***************************************************************************)
(* State.                                                                  *)
(***************************************************************************)
VARIABLES
    firmwares,      \* parser.firmwares: the release records in document order
    stable_latest,  \* sl_parser.versions: "stable" / "latest" -> version
    pc,             \* the statement process_model has reached
    run,            \* runs of process_model started so far
    dl,             \* position of the download loop (line 970)
    i,              \* position of the import loop (line 814)
    items,          \* sorted_firmwares_by_date(firmwares)
    error,          \* the exception that ended the run, "" when none
    sdks,           \* sdks_root: archive file name (gpl_version) -> kind
    unavailable,    \* unavailable_sdks.txt
    repo,           \* the model's git repository
    pre,            \* history: the repository when the current release was reached
    outcome,        \* history: how the last release considered ended
    run0,           \* history: the repository and the archives when the current
                    \* run started, and how the run before it ended
    called,         \* history: <<operation, version>> calls made so far, and
                    \* <<"urlopen", version, run>> for each download attempt
    parser,         \* the fields of the FirmwareTreeParser being fed
    events,         \* markup events fed to the parser so far
    fed,            \* history: the list events fed to the parser, in order
    argv,           \* sys.argv[1:] of main
    models,         \* the models main has still to process, the current one
                    \* first; << >> when process_model is run by itself
    processed       \* history: the models process_model was called for

vars ==
    <<firmwares, stable_latest, pc, run, dl, i, items, error, sdks,
      unavailable, repo, pre, outcome, run0, called, parser, events, fed,
      argv, models, processed>>

\* The variables of the changelog parser.
parserVars == <<parser, events, fed>>

\* The variables of main.
mainVars == <<argv, models, processed>>

(***************************************************************************)
(* FirmwareTreeParser.  parser.firmwares is the variable firmwares: a dict  *)
(* as the sequence of its values in insertion order.  A node is a record   *)
(* [text, children]; node_stack holds, for each open node, its path: the   *)
(* child indices that lead to it from the root list of the release's tree. *)
(* current_root is None or the version whose tree list it is an alias of.  *)
(***************************************************************************)
CHANGELOG == <<"C", "h", "a", "n", "g", "e", "l", "o", "g">>

HeadingTags == {"h1", "h2", "h3", "h4", "h5", "h6"}

\* FirmwareTreeParser.__init__
NewParser ==
    [in_heading |-> FALSE,
     heading_buffer |-> << >>,
     in_changelog_section |-> FALSE,
     current_version |-> None,
     current_heading_text |-> << >>,
     current_release_date |-> << >>,
     current_warning |-> << >>,
     awaiting_root_ul |-> FALSE,
     collecting_warning |-> FALSE,
     collecting_changelog |-> FALSE,
     changelog_ul_depth |-> 0,
     current_root |-> None,
     node_stack |-> << >>]

\* version in firmwares
HasKey(fws, version) == \E k \in 1..Len(fws) : fws[k].version = version

\* The position of firmwares[version].
IndexOf(fws, version) == CHOOSE k \in 1..Len(fws) : fws[k].version = version

\* firmwares[version] = fw: a key that exists keeps its position.
DictSet(fws, version, fw) ==
    IF HasKey(fws, version)
    THEN [fws EXCEPT ![IndexOf(fws, version)] = fw]
    ELSE Append(fws, fw)

RECURSIVE ChildrenAt(_, _)
\* The list a path leads to: the root list, or the children of a node.
ChildrenAt(nodes, path) ==
    IF path = << >> THEN nodes
    ELSE ChildrenAt(nodes[path[1]].children, Tail(path))

RECURSIVE AppendNode(_, _, _)
\* The list with node appended to the list the path leads to.
AppendNode(nodes, path, node) ==
    IF path = << >> THEN Append(nodes, node)
    ELSE [nodes EXCEPT ![path[1]].children = AppendNode(@, Tail(path), node)]

RECURSIVE AppendText(_, _, _)
\* node["text"] += text for the node at a path.
AppendText(nodes, path, text) ==
    IF Len(path) = 1 THEN [nodes EXCEPT ![path[1]].text = @ \o text]
    ELSE [nodes EXCEPT ![path[1]].children = AppendText(@, Tail(path), text)]

RECURSIVE StripText(_, _)
\* node["text"] = node["text"].strip() for the node at a path.
StripText(nodes, path) ==
    IF Len(path) = 1 THEN [nodes EXCEPT ![path[1]].text = strip(@)]
    ELSE [nodes EXCEPT ![path[1]].children = StripText(@, Tail(path))]

\* Lines 201-206: the heading split at its first "|" into (left, right).
HeadingHalves(heading_text) ==
    IF Contains(heading_text, <<"|">>)
    THEN <<strip(split1(heading_text, "|")[1]), strip(split1(heading_text, "|")[2])>>
    ELSE <<heading_text, << >> >>

\* A variant of the choice of the version token that takes the last token.
LastToken(toks) == IF toks = << >> THEN None ELSE toks[Len(toks)]

\* Lines 208-212: the first token with the marker among the tokens, None
\* when there is none.
FirstVersionToken(toks) ==
    IF \E k \in 1..Len(toks) : Contains(toks[k], MARKER)
    THEN toks[CHOOSE k \in 1..Len(toks) :
                 /\ Contains(toks[k], MARKER)
                 /\ \A j \in 1..(k - 1) : ~Contains(toks[j], MARKER)]
    ELSE None

\* Lines 216-235: the release context and the record of a new version.
NewContext(p, fws, heading, version, right) ==
    [p |-> [p EXCEPT !.current_version = version,
                     !.current_heading_text = heading,
                     !.current_release_date = right,
                     !.current_warning = << >>,
                     !.awaiting_root_ul = TRUE,
                     !.collecting_warning = TRUE,
                     !.collecting_changelog = FALSE,
                     !.changelog_ul_depth = 0,
                     !.current_root = None,
                     !.node_stack = << >>],
     fws |-> DictSet(fws, version,
                     [heading |-> heading, version |-> version,
                      release_date |-> right, warning |-> << >>,
                      tree |-> << >>])]

\* Lines 208-235 for the halves of the heading.
StartVersion(p, fws, heading_text, halves, version) ==
    IF version = None THEN [p |-> p, fws |-> fws]
    ELSE NewContext(p, fws, strip(heading_text), version, halves[2])

\* A heading half with its "|" replaced and split into tokens.
Tokens(left) == split_ws(replace_char(left, "|", " "))

\* _start_new_version: the parser fields and the mapping afterwards.
start_new_version(p, fws, heading_text) ==
    StartVersion(p, fws, heading_text, HeadingHalves(heading_text),
                 FirstVersionToken(Tokens(HeadingHalves(heading_text)[1])))

\* Lines 239-241: an opening heading tag.
StartHeading(p, tag) ==
    IF tag \in HeadingTags
    THEN [p EXCEPT !.in_heading = TRUE, !.heading_buffer = << >>]
    ELSE p

\* A variant of the root ul that starts the tree of the release afresh.
StartRootUlAfresh(p, fws, k) ==
    [p |-> [p EXCEPT !.collecting_changelog = TRUE,
                     !.changelog_ul_depth = 1,
                     !.awaiting_root_ul = FALSE,
                     !.collecting_warning = FALSE,
                     !.current_root = p.current_version,
                     !.node_stack = << >>],
     fws |-> [fws EXCEPT ![k].warning = strip(p.current_warning),
                         ![k].tree = << >>],
     error |-> ""]

\* Lines 244-261: a root ul of the current release; k is the position of
\* its record.
StartRootUl(p, fws, k) ==
    [p |-> [p EXCEPT !.collecting_changelog = TRUE,
                     !.changelog_ul_depth = 1,
                     !.awaiting_root_ul = FALSE,
                     !.collecting_warning = IF fws[k].tree = << >> THEN FALSE ELSE @,
                     !.current_root = p.current_version,
                     !.node_stack = << >>],
     fws |-> IF fws[k].tree = << >>
             THEN [fws EXCEPT ![k].warning = strip(p.current_warning)]
             ELSE fws,
     error |-> ""]

\* Lines 267-273: a node for an li under the node at path parent of the
\* tree of the record at position k.
StartLi(p, fws, k, parent) ==
    [p |-> [p EXCEPT !.node_stack =
                        Append(@, Append(parent,
                                         Len(ChildrenAt(fws[k].tree, parent)) + 1))],
     fws |-> [fws EXCEPT ![k].tree =
                AppendNode(@, parent, [text |-> << >>, children |-> << >>])],
     error |-> ""]

\* The path of the innermost open node, << >> for the root list.
TopPath(p) ==
    IF p.node_stack = << >> THEN << >> ELSE p.node_stack[Len(p.node_stack)]

\* Lines 263-273: an opening tag inside a changelog list.
StartNested(p, fws, tag) ==
    IF p.collecting_changelog /\ tag = "ul"
    THEN [p |-> [p EXCEPT !.changelog_ul_depth = @ + 1], fws |-> fws,
          error |-> ""]
    ELSE IF p.collecting_changelog /\ tag = "li"
    THEN IF p.node_stack = << >> /\ p.current_root = None
         THEN [p |-> p, fws |-> fws, error |-> "AssertionError"]
         ELSE StartLi(p, fws, IndexOf(fws, p.current_root), TopPath(p))
    ELSE [p |-> p, fws |-> fws, error |-> ""]

\* Lines 243-273 for the parser after lines 239-241.
StartAfterHeading(p, fws, tag) ==
    IF p.awaiting_root_ul /\ p.current_version # None /\ tag = "ul"
    THEN StartRootUl(p, fws, IndexOf(fws, p.current_version))
    ELSE StartNested(p, fws, tag)

\* handle_starttag; error is "AssertionError" when the assert of line 270
\* fails.
handle_starttag(p, fws, tag) == StartAfterHeading(StartHeading(p, tag), fws, tag)

\* A variant of the end of a heading that starts a release in any section.
HeadingEndsAnywhere(p, fws, heading_text) ==
    IF Contains(heading_text, CHANGELOG)
    THEN [p |-> [p EXCEPT !.in_changelog_section = TRUE], fws |-> fws]
    ELSE IF Contains(heading_text, MARKER)
    THEN start_new_version(p, fws, heading_text)
    ELSE [p |-> p, fws |-> fws]

\* Lines 279-283: the heading text decides what the heading starts.
HeadingEnds(p, fws, heading_text) ==
    IF Contains(heading_text, CHANGELOG)
    THEN [p |-> [p EXCEPT !.in_changelog_section = TRUE], fws |-> fws]
    ELSE IF p.in_changelog_section /\ Contains(heading_text, MARKER)
    THEN start_new_version(p, fws, heading_text)
    ELSE [p |-> p, fws |-> fws]

\* in_heading = False on a parser state.
LeaveHeading(s) == [p |-> [s.p EXCEPT !.in_heading = FALSE], fws |-> s.fws]

\* Lines 277-285: a closing heading tag.
EndHeading(p, fws, tag) ==
    IF tag \in HeadingTags
    THEN LeaveHeading(HeadingEnds(p, fws, strip(p.heading_buffer)))
    ELSE [p |-> p, fws |-> fws]

\* A variant of the closing li that leaves the node on the stack.
EndLiKeepsOpen(s, tag) ==
    IF tag = "li" /\ s.p.collecting_changelog /\ s.p.node_stack # << >>
    THEN [p |-> s.p,
          fws |-> [s.fws EXCEPT ![IndexOf(s.fws, s.p.current_root)].tree =
                     StripText(@, TopPath(s.p))]]
    ELSE s

\* Lines 288-291: a closing li.
EndLi(s, tag) ==
    IF tag = "li" /\ s.p.collecting_changelog /\ s.p.node_stack # << >>
    THEN [p |-> [s.p EXCEPT !.node_stack = SubSeq(@, 1, Len(@) - 1)],
          fws |-> [s.fws EXCEPT ![IndexOf(s.fws, s.p.current_root)].tree =
                     StripText(@, TopPath(s.p))]]
    ELSE s

\* A variant of the closing ul that counts every closing ul.
EndUlUnguarded(s, tag) ==
    IF tag = "ul"
    THEN IF s.p.changelog_ul_depth - 1 = 0
         THEN [p |-> [s.p EXCEPT !.changelog_ul_depth = 0,
                                 !.collecting_changelog = FALSE,
                                 !.node_stack = << >>,
                                 !.awaiting_root_ul = TRUE],
               fws |-> s.fws]
         ELSE [p |-> [s.p EXCEPT !.changelog_ul_depth = @ - 1], fws |-> s.fws]
    ELSE s

\* Lines 294-299: a closing ul.
EndUl(s, tag) ==
    IF s.p.collecting_changelog /\ tag = "ul"
    THEN IF s.p.changelog_ul_depth - 1 = 0
         THEN [p |-> [s.p EXCEPT !.changelog_ul_depth = 0,
                                 !.collecting_changelog = FALSE,
                                 !.node_stack = << >>,
                                 !.awaiting_root_ul = TRUE],
               fws |-> s.fws]
         ELSE [p |-> [s.p EXCEPT !.changelog_ul_depth = @ - 1], fws |-> s.fws]
    ELSE s

\* handle_endtag
handle_endtag(p, fws, tag) == EndUl(EndLi(EndHeading(p, fws, tag), tag), tag)

\* handle_data
handle_data(p, fws, data) ==
    IF p.in_heading
    THEN [p |-> [p EXCEPT !.heading_buffer = @ \o data], fws |-> fws]
    ELSE IF p.collecting_changelog /\ p.node_stack # << >>
    THEN [p |-> p,
          fws |-> [fws EXCEPT ![IndexOf(fws, p.current_root)].tree =
                     AppendText(@, TopPath(p), data)]]
    ELSE IF p.collecting_warning /\ p.current_version # None
            /\ ~p.collecting_changelog
    THEN [p |-> [p EXCEPT !.current_warning = @ \o data], fws |-> fws]
    ELSE [p |-> p, fws |-> fws]

\* The tags and the text chunks of the documents fed to the parser.  The
\* handlers tell apart headings, ul and li; every other tag is a no-op.
Tags == {"h3", "ul", "li"}

Chunks ==
    { CHANGELOG,
      <<"A", "_", "R", "_", "1">>,
      <<"B", "_", "R", "_", "2", " ", "|", " ", "d">>,
      <<" ", "w">> }

\* The parser is constructed and nothing has been fed to it.
InitParser ==
    /\ parser = NewParser
    /\ firmwares = << >>
    /\ events = 0
    /\ fed = << >>
    /\ pc = "feed"
    /\ error = ""
    /\ stable_latest = EmptyMap
    /\ run = 0
    /\ dl = 0
    /\ i = 0
    /\ items = << >>
    /\ sdks = EmptyMap
    /\ unavailable = {}
    /\ repo = NoRepo
    /\ pre = NoRepo
    /\ outcome = ""
    /\ run0 = [repo |-> NoRepo, sdks |-> EmptyMap, pc |-> "idle",
               stable_latest |-> EmptyMap]
    /\ called = {}
    /\ argv = << >>
    /\ models = << >>
    /\ processed = << >>

\* What a step of the parser leaves alone.
ParserFrame ==
    UNCHANGED <<stable_latest, run, dl, i, items, sdks, unavailable, repo, pre,
                outcome, run0, called, argv, models, processed>>

\* feed() passes the parser an opening tag.
HandleStarttag ==
    /\ pc = "feed"
    /\ events < MaxEvents
    /\ \E tag \in Tags :
         /\ parser' = handle_starttag(parser, firmwares, tag).p
         /\ firmwares' = handle_starttag(parser, firmwares, tag).fws
         /\ error' = handle_starttag(parser, firmwares, tag).error
    /\ pc' = IF error' = "" THEN "feed" ELSE "raised"
    /\ events' = events + 1
    /\ UNCHANGED fed
    /\ ParserFrame

\* feed() passes the parser a closing tag.
HandleEndtag ==
    /\ pc = "feed"
    /\ events < MaxEvents
    /\ \E tag \in Tags :
         /\ parser' = handle_endtag(parser, firmwares, tag).p
         /\ firmwares' = handle_endtag(parser, firmwares, tag).fws
    /\ events' = events + 1
    /\ UNCHANGED <<pc, error>>
    /\ UNCHANGED fed
    /\ ParserFrame

\* feed() passes the parser a run of text.
HandleData ==
    /\ pc = "feed"
    /\ events < MaxEvents
    /\ \E data \in Chunks :
         /\ parser' = handle_data(parser, firmwares, data).p
         /\ firmwares' = handle_data(parser, firmwares, data).fws
    /\ events' = events + 1
    /\ UNCHANGED <<pc, error>>
    /\ UNCHANGED fed
    /\ ParserFrame

NextParser == HandleStarttag \/ HandleEndtag \/ HandleData

SpecParser == InitParser /\ [][NextParser]_vars

\* The value of a class pointer that process_model has not looked at yet.
\* Writing the overview (lines 916-920) depends only on which keys
\* sl_parser.versions has; the versions it names are first read at lines
\* 861-862, and the model draws them there.
UNREAD == <<"?">>

\* The keys the StableLatestParser can yield: a class whose table row is
\* absent has no key.
PointerKeys == SUBSET {"stable", "latest"}

\* The versions the table can name: those of the document's releases.
PointerVersions(fws) == {fws[k].version : k \in 1..Len(fws)}

\* MODEL_CONFIG, lines 23-28: the models in the order of the dict's items.
MODEL_CONFIG == <<"RUT951", "RUT950", "RUTX09">>

\* What models/<model>/ holds for a document before the first run: the
\* releases the parser yields and the archives in sdks_root.
ModelDir(doc) ==
    [firmwares |-> [k \in 1..Len(doc) |-> Releases[doc[k]].fw],
     sdks |-> [g \in {derive_sdk_path_parts(Releases[doc[k]].fw.version).gpl_version :
                        k \in {j \in 1..Len(doc) : Releases[doc[j]].local # ""}}
                 |-> Entry(replace1(g, GPL_MARKER, MARKER)).local]]

\* The state of a model's directory and of the history before process_model
\* is first called for it.
InitFor(docs) ==
    /\ \E doc \in docs :
         /\ firmwares = ModelDir(doc).firmwares
         /\ sdks = ModelDir(doc).sdks
    /\ stable_latest = EmptyMap
    /\ run = 0
    /\ dl = 0
    /\ i = 0
    /\ items = << >>
    /\ error = ""
    /\ unavailable = {}
    /\ repo = NoRepo
    /\ pre = NoRepo
    /\ outcome = ""
    /\ run0 = [repo |-> NoRepo, sdks |-> EmptyMap, pc |-> "idle",
               stable_latest |-> EmptyMap]
    /\ called = {}
    /\ parser = NewParser
    /\ events = 0
    /\ fed = << >>
    /\ argv = << >>
    /\ models = << >>
    /\ processed = << >>

InitModel == InitFor(Docs)

\* process_model is run by itself on one model's directory.
Init ==
    /\ InitModel
    /\ pc = "idle"

(***************************************************************************)
(* process_model, lines 879-966: the document is fetched and parsed, the   *)
(* markdown and JSON files are written.  Writing the overview reads        *)
(* stable_latest["stable"] and stable_latest["latest"] (lines 916-920).    *)
(***************************************************************************)
\* Lines 916-920 raise KeyError for a missing key.
\* A variant of the overview that reads the pointers with a default.
OverviewTolerant(sl) == FALSE

OverviewKeyError(sl) == "stable" \notin DOMAIN sl \/ "latest" \notin DOMAIN sl

ProcessModel ==
    /\ \/ pc = "idle"
       \/ /\ models = << >>
          /\ pc \in {"returned", "raised", "skipped", "interrupted"}
    /\ run < MaxRuns
    /\ processed' = IF models = << >> THEN processed
                    ELSE Append(processed, Head(models))
    /\ UNCHANGED <<argv, models>>
    /\ \E keys \in PointerKeys :
         /\ stable_latest' = [k \in keys |-> UNREAD]
         /\ IF OverviewKeyError(stable_latest')
            THEN pc' = "raised" /\ error' = "KeyError"
            ELSE pc' = "download" /\ error' = ""
    /\ run' = run + 1
    /\ dl' = 1
    /\ i' = 0
    /\ items' = << >>
    /\ outcome' = ""
    /\ run0' = [repo |-> repo, sdks |-> sdks, pc |-> pc,
                stable_latest |-> stable_latest]
    /\ UNCHANGED <<firmwares, sdks, unavailable, repo, pre, called>>
    /\ UNCHANGED parserVars

(***************************************************************************)
(* Step 6, lines 969-980: download_sdk_if_needed for every release that is *)
(* not withdrawn.                                                          *)
(***************************************************************************)
\* fw["warning"].strip() is non-empty.
\* A variant without the filter on the warning text.
WarningIgnored(fw) == FALSE

IsWithdrawn(fw) == strip(fw.warning) # << >>

\* download_sdk_if_needed returns, or raises the ValueError of
\* derive_sdk_path_parts, without having asked the server.
NoDownload(info, files, ledger) ==
    [ok |-> info.ok, exc |-> IF info.ok THEN "" ELSE "ValueError",
     sdks |-> files, unavailable |-> ledger, urlopen |-> FALSE]

\* Lines 454-473: urlopen, the copy into dest_file and the except clauses.
\* HTTPError and URLError come from urlopen, before dest_file is opened; an
\* error of resp.read() comes after open(dest_file, "wb") created the file and
\* is none of the two caught classes.
Download(server, version, info, files, ledger) ==
    LET same == [NoDownload(info, files, ledger) EXCEPT !.urlopen = TRUE] IN
    IF server = "ok"
    THEN [same EXCEPT !.sdks = Put(files, info.gpl_version, "archive")]
    ELSE IF server = "forbidden"
    THEN [same EXCEPT !.unavailable = ledger \cup {version}]
    ELSE IF server = "reset"
    THEN [same EXCEPT !.sdks = Put(files, info.gpl_version, "partial"),
                      !.ok = FALSE,
                      !.exc = "ConnectionResetError"]
    ELSE same

\* A variant that downloads without looking at the ledger.
download_sdk_always(version, files, ledger) ==
    LET info == derive_sdk_path_parts(version) IN
    IF ~info.ok THEN NoDownload(info, files, ledger)
    ELSE IF info.unified_short = << >> THEN NoDownload(info, files, ledger)
    ELSE IF info.gpl_version \in DOMAIN files
    THEN NoDownload(info, files, ledger)
    ELSE Download(Entry(version).server, version, info, files, ledger)

\* download_sdk_if_needed: the new file store and ledger, whether the server
\* was asked for the archive (urlopen, line 454), and the exception that
\* leaves the function, "" for none.
download_sdk_if_needed(version, files, ledger) ==
    LET info == derive_sdk_path_parts(version) IN
    IF version \in ledger
    THEN [NoDownload(info, files, ledger) EXCEPT !.ok = TRUE, !.exc = ""]
    ELSE IF ~info.ok THEN NoDownload(info, files, ledger)
    ELSE IF info.unified_short = << >> THEN NoDownload(info, files, ledger)
    ELSE IF info.gpl_version \in DOMAIN files
    THEN NoDownload(info, files, ledger)
    ELSE Download(Entry(version).server, version, info, files, ledger)

DownloadSdk ==
    /\ pc = "download"
    /\ dl <= Len(firmwares)
    /\ LET fw == firmwares[dl]
           res == download_sdk_if_needed(fw.version, sdks, unavailable)
       IN  IF IsWithdrawn(fw)
           THEN /\ dl' = dl + 1
                /\ UNCHANGED <<pc, error, sdks, unavailable, called>>
           ELSE /\ called' = called \cup {<<"download", fw.version>>}
                                   \cup (IF res.urlopen
                                         THEN {<<"urlopen", fw.version, run>>}
                                         ELSE {})
                /\ sdks' = res.sdks
                /\ unavailable' = res.unavailable
                /\ IF res.ok
                   THEN dl' = dl + 1 /\ UNCHANGED <<pc, error>>
                   ELSE pc' = "raised" /\ error' = res.exc /\ UNCHANGED dl
    /\ UNCHANGED <<firmwares, stable_latest, run, i, items, repo, pre,
                   outcome, run0>>
    /\ UNCHANGED parserVars
    /\ UNCHANGED mainVars

(***************************************************************************)
(* Step 7, lines 983-990: the repository is initialized unless it is one,  *)
(* or left alone when it is a submodule that is not checked out; then      *)
(* import_sdks_into_git starts on the sorted releases.                     *)
(***************************************************************************)
PrepareRepo ==
    /\ pc = "download"
    /\ dl > Len(firmwares)
    /\ IF repo.initialized
       THEN pc' = "loop" /\ UNCHANGED repo
       ELSE \E is_git_submodule \in BOOLEAN :
              IF is_git_submodule
              THEN pc' = "skipped" /\ UNCHANGED repo
              ELSE pc' = "loop" /\ repo' = git_init(repo)
    /\ items' = sorted_firmwares_by_date(firmwares)
    /\ i' = 1
    /\ UNCHANGED <<firmwares, stable_latest, run, dl, error, sdks,
                   unavailable, pre, outcome, run0, called>>
    /\ UNCHANGED parserVars
    /\ UNCHANGED mainVars

(***************************************************************************)
(* import_sdks_into_git, lines 812-867.  One action per statement that     *)
(* changes the repository, so that a release's import is a sequence of     *)
(* steps; the release being imported is items[i].                          *)
(***************************************************************************)
\* The release the loop is at and what is derived from it.
Current == items[i]

CurrentInfo == derive_sdk_path_parts(Current.version)

\* is_lfs_pointer_file(sdk_path)
is_lfs_pointer_file(files, gpl_version) == files[gpl_version] = "pointer"

\* Ends the iteration: continue with the next release.
NextRelease(how) ==
    /\ outcome' = how
    /\ i' = i + 1
    /\ pc' = "loop"

\* Lines 814-846: the checks that skip a release before any change.
ConsiderRelease ==
    /\ pc = "loop"
    /\ i <= Len(items)
    /\ pre' = repo
    /\ LET info == CurrentInfo IN
       IF IsWithdrawn(Current.fw)
       THEN NextRelease("Withdrawn") /\ UNCHANGED sdks
       ELSE IF ~info.ok
       THEN NextRelease("InvalidVersion") /\ UNCHANGED sdks
       ELSE IF info.unified_short = << >>
       THEN NextRelease("InvalidVersion") /\ UNCHANGED sdks
       ELSE IF info.gpl_version \notin DOMAIN sdks
       THEN NextRelease("MissingArchive") /\ UNCHANGED sdks
       ELSE IF repo_has_tag(repo, info.gpl_version)
       THEN NextRelease("AlreadyTagged") /\ UNCHANGED sdks
       ELSE IF is_lfs_pointer_file(sdks, info.gpl_version)
       THEN \E resolve_lfs_pointer \in BOOLEAN :
              IF resolve_lfs_pointer
              THEN /\ sdks' = Put(sdks, info.gpl_version, "archive")
                   /\ pc' = "branch"
                   /\ UNCHANGED <<outcome, i>>
              ELSE NextRelease("UnresolvedPointer") /\ UNCHANGED sdks
       ELSE pc' = "branch" /\ UNCHANGED <<outcome, i, sdks>>
    /\ UNCHANGED <<firmwares, stable_latest, run, dl, items, error,
                   unavailable, repo, run0, called>>
    /\ UNCHANGED parserVars
    /\ UNCHANGED mainVars

\* Lines 848-849.
SelectBranch ==
    /\ pc = "branch"
    /\ repo' = create_or_checkout_minor_branch(
                   repo, get_minor_from_unified_short(CurrentInfo.unified_short))
    /\ called' = called \cup {<<"checkout", Current.version>>}
    /\ pc' = "clear"
    /\ UNCHANGED <<firmwares, stable_latest, run, dl, i, items, error, sdks,
                   unavailable, pre, outcome, run0>>
    /\ UNCHANGED parserVars
    /\ UNCHANGED mainVars

\* Line 853.
ClearWorktree ==
    /\ pc = "clear"
    /\ repo' = clear_repo_worktree(repo)
    /\ pc' = "extract"
    /\ UNCHANGED <<firmwares, stable_latest, run, dl, i, items, error, sdks,
                   unavailable, pre, outcome, run0, called>>
    /\ UNCHANGED parserVars
    /\ UNCHANGED mainVars

\* Lines 629-630: tarfile.open raises ReadError for a file that is not a
\* gzip-compressed tar, as the empty file of a download that broke off is;
\* extract_sdk_into_repo has a finally clause and no except clause, and
\* import_sdks_into_git has no try statement around the call.
ExtractRaises(entry, file) == ~entry.gzip \/ file = "partial"

\* Lines 854-856.
ExtractSdk ==
    /\ pc = "extract"
    /\ LET res == extract_sdk_into_repo(repo, Entry(Current.version).archive) IN
       IF ExtractRaises(Entry(Current.version), sdks[CurrentInfo.gpl_version])
       THEN /\ pc' = "raised"
            /\ error' = "ReadError"
            /\ UNCHANGED <<repo, outcome, i>>
       ELSE /\ repo' = res.repo
            /\ UNCHANGED error
            /\ IF res.ok
               THEN pc' = "add" /\ UNCHANGED <<outcome, i>>
               ELSE NextRelease("InvalidArchiveLayout")
    /\ UNCHANGED <<firmwares, stable_latest, run, dl, items, sdks,
                   unavailable, pre, run0, called>>
    /\ UNCHANGED parserVars
    /\ UNCHANGED mainVars

\* commit_and_tag_repo, lines 651-661: git add and git status.
StageAll ==
    /\ pc = "add"
    /\ repo' = git_add_all(repo)
    /\ IF status_clean(git_add_all(repo))
       THEN NextRelease("NoChanges")
       ELSE pc' = "commit" /\ UNCHANGED <<outcome, i>>
    /\ UNCHANGED <<firmwares, stable_latest, run, dl, items, error, sdks,
                   unavailable, pre, run0, called>>
    /\ UNCHANGED parserVars
    /\ UNCHANGED mainVars

\* commit_and_tag_repo, lines 664-669: git commit.
Commit ==
    /\ pc = "commit"
    /\ repo' = git_commit(repo, SDK_PREFIX \o CurrentInfo.gpl_version, Current.dt)
    /\ pc' = "tag"
    /\ UNCHANGED <<firmwares, stable_latest, run, dl, i, items, error, sdks,
                   unavailable, pre, outcome, run0, called>>
    /\ UNCHANGED parserVars
    /\ UNCHANGED mainVars

\* commit_and_tag_repo, lines 670-672: git tag.
Tag ==
    /\ pc = "tag"
    /\ repo' = git_tag(repo, CurrentInfo.gpl_version)
    /\ NextRelease("Imported")
    /\ UNCHANGED <<firmwares, stable_latest, run, dl, items, error, sdks,
                   unavailable, pre, run0, called>>
    /\ UNCHANGED parserVars
    /\ UNCHANGED mainVars

\* The process is stopped between two statements of a release's import (lines
\* 848-859 and 651-670): whatever the completed statements wrote stays in the
\* repository, and nothing of the run is executed after it.
Interrupt ==
    /\ pc \in {"branch", "clear", "extract", "add", "commit", "tag"}
    /\ pc' = "interrupted"
    /\ error' = "KeyboardInterrupt"
    /\ UNCHANGED <<firmwares, stable_latest, run, dl, i, items, sdks,
                   unavailable, repo, pre, outcome, run0, called>>
    /\ UNCHANGED parserVars
    /\ UNCHANGED mainVars

\* stable_latest.get(key)
get(sl, key) == IF key \in DOMAIN sl THEN sl[key] ELSE None

\* The dicts with the keys of sl whose versions are among the given ones.
ReadPointers(sl, versions) == [DOMAIN sl -> versions]

\* Lines 861-866: after the loop, the class pointers are read and asserted,
\* and master is reset.
FinalizeLatest ==
    /\ pc = "loop"
    /\ i > Len(items)
    /\ \E sl \in ReadPointers(stable_latest, PointerVersions(firmwares)) :
         LET latest_fw == get(sl, "latest")
             stable_fw == get(sl, "stable")
             res == update_branch_head_to_version(repo, MASTER, latest_fw)
         IN  /\ stable_latest' = sl
             /\ IF latest_fw = None \/ stable_fw = None
                THEN pc' = "raised" /\ error' = "AssertionError" /\ UNCHANGED repo
                ELSE /\ repo' = res.repo
                     /\ error' = res.error
                     /\ pc' = IF res.error = "" THEN "update_stable" ELSE "raised"
    /\ UNCHANGED <<firmwares, run, dl, i, items, sdks,
                   unavailable, pre, outcome, run0, called>>
    /\ UNCHANGED parserVars
    /\ UNCHANGED mainVars

\* Line 867: the reset of stable; import_sdks_into_git returns.
FinalizeStable ==
    /\ pc = "update_stable"
    /\ LET res == update_branch_head_to_version(
                      repo, STABLE, get(stable_latest, "stable"))
       IN  /\ repo' = res.repo
           /\ error' = res.error
           /\ pc' = IF res.error = "" THEN "returned" ELSE "raised"
    /\ UNCHANGED <<firmwares, stable_latest, run, dl, i, items, sdks,
                   unavailable, pre, outcome, run0, called>>
    /\ UNCHANGED parserVars
    /\ UNCHANGED mainVars

Next ==
    \/ ProcessModel
    \/ DownloadSdk
    \/ PrepareRepo
    \/ ConsiderRelease
    \/ SelectBranch
    \/ ClearWorktree
    \/ ExtractSdk
    \/ StageAll
    \/ Commit
    \/ Tag
    \/ Interrupt
    \/ FinalizeLatest
    \/ FinalizeStable

Spec == Init /\ [][Next]_vars

(***************************************************************************)
(* process_model on documents whose releases the firmware server answers   *)
(* in every way download_sdk_if_needed tells apart: with the archive, with *)
(* HTTP 403, with another HTTP status, with no connection, and with a      *)
(* connection that is lost while the archive is read.                      *)
(***************************************************************************)
\* The releases of these documents: 07.10.1 (served), 07.11.1 (403) and the
\* three of TransferCatalogue.
DownloadReleases ==
    {2, 8} \cup {Len(Catalogue) + k : k \in 1..Len(TransferCatalogue)}

DownloadDocs ==
    UNION {{d \in [1..n -> DownloadReleases] :
               \A a, b \in 1..n : a # b => d[a] # d[b]} : n \in 1..MaxReleases}

InitDownload ==
    /\ InitFor(DownloadDocs)
    /\ pc = "idle"

SpecDownload == InitDownload /\ [][Next]_vars

(***************************************************************************)
(* main, lines 993-1014: without an argument process_model is called for   *)
(* every model of MODEL_CONFIG, with one argument for that model.  Each    *)
(* model has its own directory models/<model>/ with its own archives and   *)
(* repository.                                                             *)
(***************************************************************************)
\* The argument lists main is started with.
Argvs == {<< >>, <<"RUT950">>, <<"RUT000">>, <<"RUT951", "RUT950">>}

InitMain ==
    /\ InitModel
    /\ pc = "main"

\* Lines 995-1012, up to the first call of process_model.
Main ==
    /\ pc = "main"
    /\ \E args \in Argvs :
         /\ argv' = args
         /\ IF Len(args) \notin {0, 1}
            THEN pc' = "exit 1" /\ models' = << >>
            ELSE IF Len(args) = 1
            THEN IF args[1] \notin Range(MODEL_CONFIG)
                 THEN pc' = "exit 1" /\ models' = << >>
                 ELSE pc' = "idle" /\ models' = args
            ELSE pc' = "idle" /\ models' = MODEL_CONFIG
    /\ UNCHANGED <<firmwares, stable_latest, run, dl, i, items, error, sdks,
                   unavailable, repo, pre, outcome, run0, called, processed>>
    /\ UNCHANGED parserVars

\* Line 1011: process_model returned and the loop takes the next model, whose
\* directory is another one.
MainNextModel ==
    /\ pc \in {"returned", "skipped"}
    /\ Len(models) > 1
    /\ models' = Tail(models)
    /\ \E doc \in Docs :
         /\ firmwares' = ModelDir(doc).firmwares
         /\ sdks' = ModelDir(doc).sdks
    /\ pc' = "idle"
    /\ stable_latest' = EmptyMap
    /\ run' = 0
    /\ dl' = 0
    /\ i' = 0
    /\ items' = << >>
    /\ error' = ""
    /\ unavailable' = {}
    /\ repo' = NoRepo
    /\ pre' = NoRepo
    /\ outcome' = ""
    /\ run0' = [repo |-> NoRepo, sdks |-> EmptyMap, pc |-> "idle",
                stable_latest |-> EmptyMap]
    /\ called' = {}
    /\ UNCHANGED <<argv, processed>>
    /\ UNCHANGED parserVars

\* Line 1014: process_model returned for the last model; main returns 0.
MainReturn ==
    /\ pc \in {"returned", "skipped"}
    /\ Len(models) = 1
    /\ models' = << >>
    /\ pc' = "exit 0"
    /\ UNCHANGED <<firmwares, stable_latest, run, dl, i, items, error, sdks,
                   unavailable, repo, pre, outcome, run0, called, argv,
                   processed>>
    /\ UNCHANGED parserVars

\* Lines 1007 and 1012 are not inside a try statement: an exception raised by
\* process_model leaves main, and the interpreter exits with a traceback.
MainUncaught ==
    /\ pc = "raised"
    /\ models # << >>
    /\ pc' = "traceback"
    /\ UNCHANGED <<firmwares, stable_latest, run, dl, i, items, error, sdks,
                   unavailable, repo, pre, outcome, run0, called>>
    /\ UNCHANGED mainVars
    /\ UNCHANGED parserVars

NextMain ==
    \/ Main
    \/ ProcessModel
    \/ DownloadSdk
    \/ PrepareRepo
    \/ ConsiderRelease
    \/ SelectBranch
    \/ ClearWorktree
    \/ ExtractSdk
    \/ StageAll
    \/ Commit
    \/ Tag
    \/ FinalizeLatest
    \/ FinalizeStable
    \/ MainNextModel
    \/ MainReturn
    \/ MainUncaught

SpecMain == InitMain /\ [][NextMain]_vars

(***************************************************************************)
(* Claims about the synthesizer.                                           *)
(***************************************************************************)
\* The tag name of a version, as the claims name it: archiveVersion.
ArchiveVersion(version) == derive_sdk_path_parts(version).gpl_version

\* The commits whose message names the archiveVersion of a version.
CommitsOf(r, version) ==
    {c \in 1..Len(r.commits) :
        r.commits[c].message = SDK_PREFIX \o ArchiveVersion(version)}

\* C1: a second run on unchanged inputs (the same releases, archives and class
\* pointers as the first run, which returned) creates no commit and no tag.
C1_SecondRunCreatesNothing ==
    (/\ run = 2
     /\ pc = "returned"
     /\ run0.pc = "returned"
     /\ run0.stable_latest = stable_latest
     /\ run0.sdks = sdks)
    => /\ Len(repo.commits) = Len(run0.repo.commits)
       /\ repo.tags = run0.repo.tags

\* C2: a release with non-empty warning text is never passed to the download,
\* never gets a branch checkout, and has no commit and no tag.
C2_WithdrawnNeverImported ==
    \A k \in 1..Len(firmwares) :
        firmwares[k].warning # << >> =>
            /\ <<"download", firmwares[k].version>> \notin called
            /\ <<"checkout", firmwares[k].version>> \notin called
            /\ ArchiveVersion(firmwares[k].version) \notin DOMAIN repo.tags
            /\ CommitsOf(repo, firmwares[k].version) = {}

\* C2 witness: a withdrawn release was skipped by the import loop of a
\* repository that holds commits of other releases.
C2_Witness ==
    /\ pc = "loop"
    /\ outcome = "Withdrawn"
    /\ Len(repo.commits) > 0
    /\ \E k \in 1..Len(firmwares) :
          /\ firmwares[k].warning # << >>
          /\ ArchiveVersion(firmwares[k].version) \in DOMAIN sdks

\* The archive has zero or several top-level entries, or one that is a file.
InvalidLayout(archive) ==
    Len(archive) # 1 \/ (Len(archive) = 1 /\ ~archive[1].isdir)

\* C4: the import of a release whose archive layout is invalid leaves the
\* files of the working tree and the checked-out branch as they were when the
\* release was reached.
C4_RejectionLeavesWorktree ==
    (/\ pc = "loop"
     /\ i > 1
     /\ outcome = "InvalidArchiveLayout"
     /\ InvalidLayout(Entry(items[i - 1].version).archive))
    => /\ repo.worktree = pre.worktree
       /\ repo.head = pre.head

\* C4 witness: an archive with an invalid layout was rejected after the
\* working tree of a repository with commits was prepared for it.
C4_Witness ==
    /\ pc = "loop"
    /\ i > 1
    /\ outcome = "InvalidArchiveLayout"
    /\ InvalidLayout(Entry(items[i - 1].version).archive)
    /\ Len(pre.commits) > 0

\* The branch of the minor line of a version.
LineName(version) ==
    <<"v">> \o get_minor_from_unified_short(
                   derive_sdk_path_parts(version).unified_short)

\* The (major, minor) integers of a branch name vM.N, << >> for other names.
LineKey(name) ==
    IF \E k \in 3..(Len(name) - 1) :
          /\ name[1] = "v" /\ name[k] = "."
          /\ \A j \in (2..Len(name)) \ {k} : name[j] \in Digits
    THEN LET k == CHOOSE k \in 3..(Len(name) - 1) : name[k] = "."
         IN  <<int(SubSeq(name, 2, k - 1)), int(SubSeq(name, k + 1, Len(name)))>>
    ELSE << >>

\* The branches of repository r that are minor lines.
LinesIn(r) == {n \in DOMAIN r.branches : LineKey(n) # << >>}

\* The line whose (major, minor) is greatest by integer comparison.
IsGreatest(line, lines) ==
    /\ line \in lines
    /\ \A o \in lines :
          \/ LineKey(o)[1] < LineKey(line)[1]
          \/ LineKey(o)[1] = LineKey(line)[1] /\ LineKey(o)[2] <= LineKey(line)[2]

C6_ClassBranches ==
    pc = "returned" =>
        /\ MASTER \in DOMAIN repo.branches
        /\ STABLE \in DOMAIN repo.branches
        /\ ArchiveVersion(stable_latest["latest"]) \in DOMAIN repo.tags
        /\ ArchiveVersion(stable_latest["stable"]) \in DOMAIN repo.tags
        /\ repo.branches[MASTER] = repo.tags[ArchiveVersion(stable_latest["latest"])]
        /\ repo.branches[STABLE] = repo.tags[ArchiveVersion(stable_latest["stable"])]

\* C6 witness: a second run returned after it moved both class branches away
\* from the commits the first run left them on.
C6_Witness ==
    /\ pc = "returned"
    /\ run = 2
    /\ MASTER \in DOMAIN run0.repo.branches
    /\ STABLE \in DOMAIN run0.repo.branches
    /\ repo.branches[MASTER] # run0.repo.branches[MASTER]
    /\ repo.branches[STABLE] # run0.repo.branches[STABLE]

\* The import loop is over and the class branches are being updated.
InFinalization == (pc = "loop" /\ i > Len(items)) \/ pc = "update_stable"

\* C7: a step of the finalization whose designated release has no tag raises
\* the assertion failure, and no step of the finalization changes a commit or
\* a tag made for the releases.
C7_MissingTagFails ==
    [][InFinalization =>
          /\ repo'.commits = repo.commits
          /\ repo'.tags = repo.tags
          /\ (/\ pc = "loop"
              /\ DOMAIN stable_latest' = {"stable", "latest"}
              /\ ArchiveVersion(stable_latest'["latest"]) \notin DOMAIN repo.tags)
             => (pc' = "raised" /\ error' = "AssertionError")
          /\ (/\ pc = "update_stable"
              /\ ArchiveVersion(stable_latest["stable"]) \notin DOMAIN repo.tags)
             => (pc' = "raised" /\ error' = "AssertionError")]_vars

\* C7 witness: the finalization raised the assertion failure for a pointer
\* whose release has no tag, in a repository that holds commits and tags.
C7_Witness ==
    /\ pc = "raised"
    /\ error = "AssertionError"
    /\ DOMAIN stable_latest = {"stable", "latest"}
    /\ ArchiveVersion(stable_latest["stable"]) \notin DOMAIN repo.tags
    /\ ArchiveVersion(stable_latest["latest"]) \in DOMAIN repo.tags
    /\ Len(repo.commits) > 0

\* C8: a run whose pointers miss the stable or the latest entry fails, and it
\* leaves the repository and the archives as they were when it started.
C8_MissingPointerFails ==
    (run >= 1 /\ DOMAIN stable_latest # {"stable", "latest"}) =>
        /\ pc = "raised"
        /\ repo = run0.repo
        /\ sdks = run0.sdks

\* C8 witness: a run with only one pointer failed on a repository that an
\* earlier run had filled.
C8_Witness ==
    /\ run = 2
    /\ pc = "raised"
    /\ DOMAIN stable_latest = {"latest"}
    /\ Len(repo.commits) > 0
    /\ \E k \in 1..Len(firmwares) :
          /\ firmwares[k].warning = << >>
          /\ ArchiveVersion(firmwares[k].version) \in DOMAIN sdks
          /\ ArchiveVersion(firmwares[k].version) \notin DOMAIN repo.tags

\* C9: a release whose archiveVersion is already a tag when the release is
\* reached is skipped: no step of an import is taken for it, and the
\* repository after its iteration is the one before it.
C9_TaggedSkipped ==
    /\ (pc = "loop" /\ i > 1
        /\ ArchiveVersion(items[i - 1].version) \in DOMAIN pre.tags)
       => repo = pre
    /\ pc \in {"branch", "clear", "extract", "add", "commit", "tag"}
       => ArchiveVersion(Current.version) \notin DOMAIN pre.tags

\* C9 witness: a second run skipped a release that the first run tagged,
\* while another branch than the release's is checked out.
C9_Witness ==
    /\ pc = "loop"
    /\ i > 1
    /\ outcome = "AlreadyTagged"
    /\ ArchiveVersion(items[i - 1].version) \in DOMAIN pre.tags
    /\ pre.head # LineName(items[i - 1].version)

\* C11: when a run that was interrupted inside a release's import is followed
\* by a run on the same inputs that completes its import loop, every release
\* that has a commit has exactly one commit and has its tag.
C11_ResumedRunTagsCommitted ==
    (/\ run = 2
     /\ run0.pc = "interrupted"
     /\ pc = "loop"
     /\ i > Len(items))
    => \A k \in 1..Len(firmwares) :
          CommitsOf(repo, firmwares[k].version) # {} =>
             /\ Cardinality(CommitsOf(repo, firmwares[k].version)) = 1
             /\ ArchiveVersion(firmwares[k].version) \in DOMAIN repo.tags

\* The terminal states of a release other than Imported.
SkippedOutcomes ==
    {"Withdrawn", "InvalidVersion", "MissingArchive", "AlreadyTagged",
     "UnresolvedPointer", "InvalidArchiveLayout", "NoChanges"}

\* C12: a release that ends in a terminal state other than Imported leaves the
\* set of branches, the set of tags and the set of commits as they were when
\* the release was considered.
C12_OnlyImportedChangesRepo ==
    (/\ pc = "loop"
     /\ i > 1
     /\ outcome \in SkippedOutcomes)
    => /\ DOMAIN repo.branches = DOMAIN pre.branches
       /\ repo.tags = pre.tags
       /\ repo.commits = pre.commits

\* C13: when main was started without an argument and has ended, process_model
\* was called for every model of MODEL_CONFIG, whatever happened to the
\* models before.
C13_EveryModelProcessed ==
    (/\ argv = << >>
     /\ pc \in {"exit 0", "exit 1", "traceback"})
    => processed = MODEL_CONFIG

\* The download attempts made so far for a version.
Attempts(calls, version) ==
    {c \in calls : c[1] = "urlopen" /\ c[2] = version}

\* C14: no step removes a version from the unavailable ledger, and no step
\* makes a download attempt for a version that is in the ledger.
C14_StickyUnavailable ==
    [][/\ unavailable \subseteq unavailable'
       /\ \A v \in unavailable : Attempts(called', v) = Attempts(called, v)]_vars

\* C14 witness: a later run called download_sdk_if_needed for a version that
\* an earlier run had put in the ledger after its one download attempt.
C14_Witness ==
    /\ run = 2
    /\ pc = "download"
    /\ \E v \in unavailable :
          /\ <<"urlopen", v, 1>> \in called
          /\ \E k \in 1..(dl - 1) : firmwares[k].version = v

\* C17: no exception ends a run while the import loop is at a release: a run
\* that raised did so before the loop or after its last release.
C17_FailureConfinedToRelease ==
    (pc = "raised") => (i = 0 \/ i > Len(items))

\* C18: a step that creates a tag creates the one named archiveVersion of the
\* release being imported, at the commit that the step before made for that
\* release; a step that creates a commit is followed by the tag step, is for
\* an archive of valid layout and has a tree other than the branch tip's; a
\* release that ends as InvalidArchiveLayout or NoChanges has left the commits
\* and the tags as they were when it was considered.
C18_CommitsAndTagsInPairs ==
    [][/\ (repo'.tags # repo.tags) =>
            /\ pc = "tag"
            /\ ArchiveVersion(Current.version) \notin DOMAIN repo.tags
            /\ DOMAIN repo'.tags =
                   DOMAIN repo.tags \cup {ArchiveVersion(Current.version)}
            /\ \A t \in DOMAIN repo.tags : repo'.tags[t] = repo.tags[t]
            /\ repo'.tags[ArchiveVersion(Current.version)] = Len(repo.commits)
            /\ Len(repo.commits) = Len(pre.commits) + 1
            /\ repo.commits[Len(repo.commits)].message =
                   SDK_PREFIX \o ArchiveVersion(Current.version)
       /\ (repo'.commits # repo.commits) =>
            /\ pc' = "tag"
            /\ Len(repo'.commits) = Len(repo.commits) + 1
            /\ SubSeq(repo'.commits, 1, Len(repo.commits)) = repo.commits
            /\ ~InvalidLayout(Entry(Current.version).archive)
            /\ repo'.commits[Len(repo'.commits)].tree # head_tree(repo)
       /\ (i' = i + 1 /\ outcome' \in {"InvalidArchiveLayout", "NoChanges"}) =>
            /\ repo'.commits = pre.commits
            /\ repo'.tags = pre.tags]_vars

\* C18 witness: a release was committed and tagged on top of earlier commits
\* after a release before it had ended without a commit for its invalid
\* layout or its unchanged content.
C18_Witness ==
    /\ pc = "loop"
    /\ outcome = "Imported"
    /\ Len(repo.commits) >= 2
    /\ DOMAIN repo.tags = {ArchiveVersion(firmwares[k].version) :
                             k \in {j \in 1..Len(firmwares) :
                                       CommitsOf(repo, firmwares[j].version) # {}}}
    /\ \E k \in 1..(i - 2) :
          /\ ~IsWithdrawn(items[k].fw)
          /\ ArchiveVersion(items[k].version) \in DOMAIN sdks
          /\ ArchiveVersion(items[k].version) \notin DOMAIN repo.tags

\* The files of the single top-level directory of a version's archive.
ArchiveFiles(version) == Entry(version).archive[1].files

\* C19: every commit is the commit of one release whose archive has a single
\* top-level directory, and its tree is exactly the files of that directory.
C19_TreeIsArchiveContents ==
    \A c \in 1..Len(repo.commits) :
        \E k \in 1..Len(firmwares) :
            /\ repo.commits[c].message =
                   SDK_PREFIX \o ArchiveVersion(firmwares[k].version)
            /\ ~InvalidLayout(Entry(firmwares[k].version).archive)
            /\ repo.commits[c].tree = ArchiveFiles(firmwares[k].version)

\* C19 witness: a commit was made on top of a commit that has a file the
\* release's archive does not have, after the release considered before it was
\* rejected for its layout with the working tree already prepared.
C19_Witness ==
    /\ pc = "tag"
    /\ i > 1
    /\ InvalidLayout(Entry(items[i - 1].version).archive)
    /\ repo.commits[Len(repo.commits)].parent # 0
    /\ \E e \in repo.commits[repo.commits[Len(repo.commits)].parent].tree :
          \A f \in repo.commits[Len(repo.commits)].tree : f[1] # e[1]

\* C20: no step removes a commit, removes a tag or moves it to another commit;
\* no step removes a minor-line branch, and one whose tip changes has a new
\* commit on top of its old tip; a branch that is moved to a commit that
\* existed before the step is master or stable.
C20_MonotonicHistory ==
    [][/\ Len(repo'.commits) >= Len(repo.commits)
       /\ SubSeq(repo'.commits, 1, Len(repo.commits)) = repo.commits
       /\ \A t \in DOMAIN repo.tags :
             t \in DOMAIN repo'.tags /\ repo'.tags[t] = repo.tags[t]
       /\ \A b \in LinesIn(repo) :
             /\ b \in DOMAIN repo'.branches
             /\ repo'.branches[b] # repo.branches[b] =>
                   /\ repo'.branches[b] = Len(repo.commits) + 1
                   /\ repo'.commits[repo'.branches[b]].parent = repo.branches[b]
       /\ \A b \in DOMAIN repo.branches :
             (/\ b \in DOMAIN repo'.branches
              /\ repo'.branches[b] # repo.branches[b]
              /\ repo'.branches[b] <= Len(repo.commits))
             => b \in {MASTER, STABLE}]_vars

\* C20 witness: a second run has put a new commit on a minor line of the first
\* run and has moved master from the commit the first run had set it to.
C20_Witness ==
    /\ run = 2
    /\ pc = "returned"
    /\ MASTER \in DOMAIN run0.repo.branches
    /\ repo.branches[MASTER] # run0.repo.branches[MASTER]
    /\ DOMAIN run0.repo.tags # {}
    /\ \E b \in LinesIn(run0.repo) : repo.branches[b] # run0.repo.branches[b]

\* C21: a version is in the unavailable ledger exactly when a download of it
\* was answered with HTTP 403; after a download that failed in another way the
\* version is not in the ledger and no archive file of it exists, and a later
\* run that comes to the version asks the server again.
C21_FailureClasses ==
    \A k \in 1..Len(firmwares) :
        LET version == firmwares[k].version
            failed == /\ Entry(version).server \notin {"ok", "forbidden"}
                      /\ Attempts(called, version) # {}
        IN  /\ version \in unavailable <=>
                   /\ Entry(version).server = "forbidden"
                   /\ Attempts(called, version) # {}
            /\ failed => ArchiveVersion(version) \notin DOMAIN sdks
            /\ (failed /\ run = 2 /\ pc = "download" /\ dl > k)
                   => <<"urlopen", version, 2>> \in called

\* The tag of a designated version exists in a repository.
Tagged(r, version) ==
    /\ version # None
    /\ derive_sdk_path_parts(version).ok
    /\ repo_has_tag(r, derive_sdk_path_parts(version).gpl_version)

\* C27: a step of the finalization taken while the tag of the designated
\* latest version exists and the tag of the designated stable version is
\* missing moves no branch: master stays where it was, as stable does.
C27_FinalizationAllOrNothing ==
    [][(/\ InFinalization
        /\ Tagged(repo, get(stable_latest', "latest"))
        /\ get(stable_latest', "stable") # None
        /\ ~Tagged(repo, get(stable_latest', "stable")))
       => repo'.branches = repo.branches]_vars

(***************************************************************************)
(* sorted_firmwares_by_date on its own: a mapping of up to MaxSorted        *)
(* releases whose dates are absent, unparsable or valid, among them the    *)
(* earliest date strptime accepts.                                         *)
(***************************************************************************)
DateStrings ==
    { << >>,
      D_TBD,
      D_2024_01_05,
      D_2023_12_31,
      <<"2", "0", "2", "4", ".", "1", ".", "5">>,
      <<"2", "0", "2", "4", ".", "0", "2", ".", "3", "0">>,
      <<"0", "0", "0", "1", ".", "0", "1", ".", "0", "1">> }

\* The k-th version of the mapping.
SortedVersion(k) == <<CHOOSE c \in Digits : DigitVal(c) = k>>

InitSort ==
    /\ \E n \in 1..MaxSorted :
         \E dates \in [1..n -> DateStrings] :
            firmwares = [k \in 1..n |-> Release(SortedVersion(k), dates[k], << >>)]
    /\ items = << >>
    /\ pc = "unsorted"
    /\ stable_latest = EmptyMap
    /\ run = 0
    /\ dl = 0
    /\ i = 0
    /\ error = ""
    /\ sdks = EmptyMap
    /\ unavailable = {}
    /\ repo = NoRepo
    /\ pre = NoRepo
    /\ outcome = ""
    /\ run0 = [repo |-> NoRepo, sdks |-> EmptyMap, pc |-> "idle",
               stable_latest |-> EmptyMap]
    /\ called = {}
    /\ parser = NewParser
    /\ events = 0
    /\ fed = << >>
    /\ argv = << >>
    /\ models = << >>
    /\ processed = << >>

\* Line 814: items = sorted_firmwares_by_date(firmwares).
SortFirmwares ==
    /\ pc = "unsorted"
    /\ items' = sorted_firmwares_by_date(firmwares)
    /\ pc' = "sorted"
    /\ UNCHANGED <<firmwares, stable_latest, run, dl, i, error, sdks,
                   unavailable, repo, pre, outcome, run0, called>>
    /\ UNCHANGED parserVars
    /\ UNCHANGED mainVars

NextSort == SortFirmwares

SpecSort == InitSort /\ [][NextSort]_vars

\* The release has a date that strptime parses.
HasValidDate(fw) ==
    strip(fw.release_date) # << >> /\ strptime(strip(fw.release_date)).ok

\* The date a release is ordered by: its parsed date, or the earliest
\* possible date when it has none that parses.
OrderDate(fw) ==
    IF HasValidDate(fw) THEN strptime(strip(fw.release_date)).dt ELSE <<1, 1, 1>>

\* The position in the mapping of the release at position a of the result.
DocumentIndex(a) ==
    CHOOSE k \in 1..Len(firmwares) : firmwares[k].version = items[a].version

\* Every input release is in the result exactly once.
IsPermutation ==
    /\ Len(items) = Len(firmwares)
    /\ \A k \in 1..Len(firmwares) :
          Cardinality({a \in 1..Len(items) :
                          items[a].version = firmwares[k].version
                          /\ items[a].fw = firmwares[k]}) = 1

\* The result ascends by date, and equal dates keep the mapping's order.
AscendingAndStable ==
    \A a, b \in 1..Len(items) :
        a < b =>
            /\ ~DtLess(OrderDate(items[b].fw), OrderDate(items[a].fw))
            /\ OrderDate(items[a].fw) = OrderDate(items[b].fw)
               => DocumentIndex(a) < DocumentIndex(b)

\* C10 (as stated): the result holds every release once, ascends by date with
\* stable ties, and a release without a valid date precedes every release
\* with a valid date.
C10_InvalidBeforeEveryValid ==
    pc = "sorted" =>
        /\ IsPermutation
        /\ AscendingAndStable
        /\ \A a, b \in 1..Len(items) :
              (~HasValidDate(items[a].fw) /\ HasValidDate(items[b].fw)) => a < b

\* C10 (amended): the result holds every release once, ascends by date with
\* stable ties, where a release without a valid date counts as dated
\* 0001.01.01: it precedes every release with a later valid date and keeps
\* the mapping's order with a release dated 0001.01.01.
C10_SortedByDate ==
    pc = "sorted" =>
        /\ IsPermutation
        /\ AscendingAndStable
        /\ \A a, b \in 1..Len(items) :
              (/\ ~HasValidDate(items[a].fw)
               /\ HasValidDate(items[b].fw)
               /\ OrderDate(items[b].fw) # <<1, 1, 1>>) => a < b

\* C10 witness: a sorted mapping in which a dated release came before one
\* with an unparsable date and before another with the same date.
C10_Witness ==
    /\ pc = "sorted"
    /\ Len(firmwares) = 3
    /\ firmwares[1].release_date = D_2024_01_05
    /\ firmwares[2].release_date = D_TBD
    /\ firmwares[3].release_date = <<"2", "0", "2", "4", ".", "1", ".", "5">>
    /\ items[1].fw = firmwares[2]
    /\ items[2].fw = firmwares[1]
    /\ items[3].fw = firmwares[3]

(***************************************************************************)
(* derive_sdk_path_parts and get_minor_from_unified_short on their own:    *)
(* the version string is drawn, one step derives its descriptor.           *)
(***************************************************************************)
\* The dot-components the drawn version strings are made of.
Components == {<<"0">>, <<"0", "0">>, <<"0", "7">>, <<"1", "0">>, <<"3">>}

\* The version strings: a product code and marker before the components, and
\* one string without any underscore.
VersionStrings ==
    {PRODUCT \o join(comps, <<".">>) :
        comps \in UNION {[1..n -> Components] : n \in 1..MaxComps}}
    \cup {<<"X", "R", "0", "7">>}

InitVersion ==
    /\ \E version \in VersionStrings :
         firmwares = <<[heading |-> version, version |-> version,
                        release_date |-> << >>, warning |-> << >>,
                        tree |-> << >>]>>
    /\ items = << >>
    /\ pc = "version"
    /\ stable_latest = EmptyMap
    /\ run = 0
    /\ dl = 0
    /\ i = 0
    /\ error = ""
    /\ sdks = EmptyMap
    /\ unavailable = {}
    /\ repo = NoRepo
    /\ pre = NoRepo
    /\ outcome = ""
    /\ run0 = [repo |-> NoRepo, sdks |-> EmptyMap, pc |-> "idle",
               stable_latest |-> EmptyMap]
    /\ called = {}
    /\ parser = NewParser
    /\ events = 0
    /\ fed = << >>
    /\ argv = << >>
    /\ models = << >>
    /\ processed = << >>

\* Lines 820-824 and 848: info = derive_sdk_path_parts(version), then
\* minor = get_minor_from_unified_short(info["unified_short"]).
DeriveSdkPathParts ==
    /\ pc = "version"
    /\ LET info == derive_sdk_path_parts(firmwares[1].version) IN
       IF info.ok
       THEN /\ items' = <<[info |-> info,
                           minor |-> get_minor_from_unified_short(
                                         info.unified_short)]>>
            /\ pc' = "derived"
            /\ UNCHANGED error
       ELSE /\ pc' = "raised"
            /\ error' = "ValueError"
            /\ UNCHANGED items
    /\ UNCHANGED <<firmwares, stable_latest, run, dl, i, sdks,
                   unavailable, repo, pre, outcome, run0, called>>
    /\ UNCHANGED parserVars
    /\ UNCHANGED mainVars

NextVersion == DeriveSdkPathParts

SpecVersion == InitVersion /\ [][NextVersion]_vars

\* A dot-component as the claim has it in unifiedShort: without its leading
\* zeros, or as it is when it consists of zeros only.
KeptComponent(comp) ==
    IF lstrip(comp, {"0"}) = << >> THEN comp ELSE lstrip(comp, {"0"})

\* C15: unifiedShort has the components of unifiedFull at their positions,
\* each without its leading zeros and a zero-only component as it is, so it has
\* as many components as unifiedFull; minorLine is made of the first two.
C15_ShortKeepsEveryComponent ==
    (pc = "derived") =>
        LET full == split(items[1].info.unified_full, ".")
            kept == [k \in 1..Len(full) |-> KeptComponent(full[k])]
        IN  /\ items[1].info.unified_short = join(kept, <<".">>)
            /\ items[1].minor =
                   IF Len(kept) >= 2 THEN kept[1] \o <<".">> \o kept[2]
                   ELSE kept[1]

(***************************************************************************)
(* The changelog parser inside the changelog of one version: after the     *)
(* headings "Changelog" and "A_R_1", feed() passes the events of lists: a  *)
(* ul holds li elements, an li starts with text and holds text and ul      *)
(* elements, and every element is closed before its parent.                *)
(***************************************************************************)
\* The events of the two headings.
Preamble ==
    << <<"start", "h3">>, <<"data", CHANGELOG>>, <<"end", "h3">>,
       <<"start", "h3">>, <<"data", <<"A", "_", "R", "_", "1">>>>,
       <<"end", "h3">> >>

\* feed() dispatches one event to its handler.
Dispatch(s, ev) ==
    IF ev[1] = "start"
    THEN [p |-> handle_starttag(s.p, s.fws, ev[2]).p,
          fws |-> handle_starttag(s.p, s.fws, ev[2]).fws]
    ELSE IF ev[1] = "end" THEN handle_endtag(s.p, s.fws, ev[2])
    ELSE handle_data(s.p, s.fws, ev[2])

RECURSIVE Feed(_, _)
\* feed() on a sequence of events.
Feed(s, evs) ==
    IF evs = << >> THEN s ELSE Feed(Dispatch(s, Head(evs)), Tail(evs))

\* The text chunks inside list items.
ItemChunks == {<<"a">>, <<" ", "w">>}

RECURSIVE OpenElements(_)
\* The elements open after a sequence of list events, innermost last.
OpenElements(evs) ==
    IF evs = << >> THEN << >>
    ELSE LET open == OpenElements(SubSeq(evs, 1, Len(evs) - 1))
             ev == evs[Len(evs)]
         IN  IF ev[1] = "start" THEN Append(open, ev[2])
             ELSE IF ev[1] = "end" THEN SubSeq(open, 1, Len(open) - 1)
             ELSE open

\* The next event keeps the sequence a run of well-nested lists with text
\* first in every li and possibly text before, between and after the top-level
\* lists.  The text between two tags is one event (convert_charrefs is on).
MayFollow(evs, ev) ==
    LET open == OpenElements(evs)
        top == IF open = << >> THEN "" ELSE open[Len(open)]
        last == IF evs = << >> THEN <<"", "">> ELSE evs[Len(evs)]
    IN  IF last = <<"start", "li">> THEN ev[1] = "data"
        ELSE IF ev = <<"start", "ul">>
        THEN /\ top \in {"", "li"}
             /\ Cardinality({k \in 1..Len(open) : open[k] = "ul"}) < MaxDepth
        ELSE IF ev = <<"start", "li">> THEN top = "ul"
        ELSE IF ev[1] = "data" THEN top \in {"", "li"} /\ last[1] # "data"
        ELSE ev[2] = top

InitTree ==
    /\ parser = Feed([p |-> NewParser, fws |-> << >>], Preamble).p
    /\ firmwares = Feed([p |-> NewParser, fws |-> << >>], Preamble).fws
    /\ events = Len(Preamble)
    /\ fed = << >>
    /\ pc = "list"
    /\ error = ""
    /\ stable_latest = EmptyMap
    /\ run = 0
    /\ dl = 0
    /\ i = 0
    /\ items = << >>
    /\ sdks = EmptyMap
    /\ unavailable = {}
    /\ repo = NoRepo
    /\ pre = NoRepo
    /\ outcome = ""
    /\ run0 = [repo |-> NoRepo, sdks |-> EmptyMap, pc |-> "idle",
               stable_latest |-> EmptyMap]
    /\ called = {}
    /\ argv = << >>
    /\ models = << >>
    /\ processed = << >>

\* feed() passes the parser the next event of the list.
FeedEvent(ev) ==
    /\ pc = "list"
    /\ Len(fed) < MaxListEvents
    /\ MayFollow(fed, ev)
    /\ parser' = Dispatch([p |-> parser, fws |-> firmwares], ev).p
    /\ firmwares' = Dispatch([p |-> parser, fws |-> firmwares], ev).fws
    /\ events' = events + 1
    /\ fed' = Append(fed, ev)
    /\ UNCHANGED <<pc, error>>
    /\ ParserFrame

ListStarttag == \E tag \in {"ul", "li"} : FeedEvent(<<"start", tag>>)

ListEndtag == \E tag \in {"ul", "li"} : FeedEvent(<<"end", tag>>)

ListData == \E data \in ItemChunks : FeedEvent(<<"data", data>>)

NextTree == ListStarttag \/ ListEndtag \/ ListData

SpecTree == InitTree /\ [][NextTree]_vars

(***************************************************************************)
(* Claims about the changelog parser.                                      *)
(***************************************************************************)
\* The members of a set of integers in ascending order.
RECURSIVE Ascending(_)
Ascending(S) ==
    IF S = {} THEN << >>
    ELSE LET m == CHOOSE x \in S : \A y \in S : x <= y
         IN  <<m>> \o Ascending(S \ {m})

\* Opening minus closing tags among the events a..b.
Balance(evs, a, b) ==
    Cardinality({j \in a..b : evs[j][1] = "start"})
    - Cardinality({j \in a..b : evs[j][1] = "end"})

\* The event that closes the element opened by event k.
ClosedBy(evs, k) ==
    CHOOSE j \in (k + 1)..Len(evs) :
        /\ Balance(evs, k, j) = 0
        /\ \A m \in k..(j - 1) : Balance(evs, k, m) > 0

\* The opening event of the innermost element around event j, 0 for none.
Around(evs, j) ==
    LET opens == {k \in 1..(j - 1) :
                     evs[k][1] = "start" /\ ClosedBy(evs, k) > j}
    IN  IF opens = {} THEN 0
        ELSE CHOOSE k \in opens : \A o \in opens : o <= k

\* The li elements directly nested in element k: those of the ul elements that
\* are directly inside k (k = 0: of the root lists).
ItemsOf(evs, k) ==
    Ascending({j \in 1..Len(evs) :
                  /\ evs[j] = <<"start", "li">>
                  /\ Around(evs, j) # 0
                  /\ Around(evs, Around(evs, j)) = k})

RECURSIVE Concat(_, _)
\* The chunks of the data events at the given positions, in order.
Concat(evs, positions) ==
    IF positions = << >> THEN << >>
    ELSE evs[Head(positions)][2] \o Concat(evs, Tail(positions))

\* The text directly inside the li opened by event k, trimmed.
TextOf(evs, k) ==
    strip(Concat(evs, Ascending({j \in 1..Len(evs) :
                                    evs[j][1] = "data" /\ Around(evs, j) = k})))

RECURSIVE NodeOf(_, _)
\* The node of the li opened by event k.
NodeOf(evs, k) ==
    [text |-> TextOf(evs, k),
     children |-> [n \in 1..Len(ItemsOf(evs, k)) |->
                      NodeOf(evs, ItemsOf(evs, k)[n])]]

\* The forest of a sequence of complete lists.
ForestOf(evs) ==
    [n \in 1..Len(ItemsOf(evs, 0)) |-> NodeOf(evs, ItemsOf(evs, 0)[n])]

RECURSIVE Levels(_)
\* The number of levels of a forest.
Levels(nodes) ==
    IF nodes = << >> THEN 0
    ELSE LET below == {Levels(nodes[n].children) : n \in 1..Len(nodes)}
         IN  1 + CHOOSE d \in below : \A e \in below : e <= d

\* The deepest nesting of li elements in a sequence of events.
Nesting(evs) ==
    LET depths == {Cardinality({k \in 1..Len(OpenElements(SubSeq(evs, 1, j))) :
                                   OpenElements(SubSeq(evs, 1, j))[k] = "li"}) :
                      j \in 0..Len(evs)}
    IN  CHOOSE d \in depths : \A e \in depths : e <= d

\* C16: when the lists fed so far are complete, the tree of the version is the
\* forest of the li elements: as many levels as the lists are nested, each
\* node's children the li elements directly nested in it in document order,
\* each node's text the trimmed text directly inside its li.
C16_TreeFidelity ==
    (pc = "list" /\ fed # << >> /\ OpenElements(fed) = << >>)
    => /\ firmwares[1].tree = ForestOf(fed)
       /\ Levels(firmwares[1].tree) = Nesting(fed)

\* C16 witness: a complete list three levels deep with text at every level.
C16_Witness ==
    /\ pc = "list"
    /\ fed # << >>
    /\ OpenElements(fed) = << >>
    /\ Levels(firmwares[1].tree) = 3
    /\ \E n \in 1..Len(firmwares[1].tree) :
          /\ firmwares[1].tree[n].text # << >>
          /\ Len(firmwares[1].tree[n].children) = 1
          /\ firmwares[1].tree[n].children[1].text # << >>
          /\ firmwares[1].tree[n].children[1].children # << >>

\* The release context holds free text and no list has opened since the
\* heading of the release.
FreeTextAndNoList ==
    /\ parser.current_version # None
    /\ parser.collecting_warning
    /\ parser.awaiting_root_ul
    /\ strip(parser.current_warning) # << >>

\* C3: when the heading of the next release ends the context of a release
\* whose heading was followed by free text and no changelog list, the record
\* of that release carries the text as its warning.
C3_FreeTextIsWarning ==
    [][(/\ FreeTextAndNoList
        /\ parser'.current_version # parser.current_version)
       => LET k == IndexOf(firmwares, parser.current_version)
          IN  firmwares'[k].warning = strip(parser.current_warning)]_vars

\* The lengths of the prefixes of a sequence of list events after which no
\* element is open.
ClosedPrefixes(evs) ==
    {n \in 1..Len(evs) : OpenElements(SubSeq(evs, 1, n)) = << >>}

\* a is an initial part of b.
IsPrefix(a, b) == Len(a) <= Len(b) /\ SubSeq(b, 1, Len(a)) = a

\* The text in front of the first list.
TextBeforeLists(evs) ==
    Concat(evs, Ascending({j \in 1..Len(evs) :
                              /\ evs[j][1] = "data"
                              /\ \A m \in 1..j : evs[m] # <<"start", "ul">>}))

\* C22: while the lists that follow the heading of a release are fed, the
\* mapping keeps the one record of that release; the forest of the top-level
\* lists completed at any earlier point is an initial part of the tree, in
\* document order; and once the first top-level list has opened the warning
\* is the trimmed text in front of that list, whatever text follows it.
C22_ListsShareOneForest ==
    pc = "list"
    => /\ Len(firmwares) = 1
       /\ firmwares[1].version = <<"A", "_", "R", "_", "1">>
       /\ \A n \in ClosedPrefixes(fed) :
              IsPrefix(ForestOf(SubSeq(fed, 1, n)), firmwares[1].tree)
       /\ (\E j \in 1..Len(fed) : fed[j] = <<"start", "ul">>)
              => firmwares[1].warning = strip(TextBeforeLists(fed))

\* C22 witness: two completed top-level lists with a node each, text in front
\* of the first list, between the lists and after the second.
C22_Witness ==
    /\ pc = "list"
    /\ OpenElements(fed) = << >>
    /\ Len(firmwares[1].tree) = 2
    /\ firmwares[1].warning # << >>
    /\ fed[Len(fed)][1] = "data"
    /\ \E a, b \in 1..Len(fed) :
          /\ a < b
          /\ fed[a] = <<"end", "ul">>
          /\ fed[a + 1][1] = "data"
          /\ fed[b] = <<"start", "ul">>
          /\ OpenElements(SubSeq(fed, 1, a)) = << >>
\* The version token in the left part of a heading, None when it has none.
LeftVersionToken(heading_text) ==
    FirstVersionToken(Tokens(HeadingHalves(heading_text)[1]))

\* A heading with the text of the buffer ends in this step.
HeadingCloses == parser.in_heading /\ ~parser'.in_heading

\* No release has been recorded and no release context is open.
NothingCaptured(p, fws) ==
    /\ fws = << >>
    /\ p.current_version = None
    /\ p.current_warning = << >>
    /\ ~p.awaiting_root_ul
    /\ ~p.collecting_warning
    /\ ~p.collecting_changelog
    /\ p.node_stack = << >>

\* The parser has just started the release of a heading.
ReleaseStarted(p, fws, heading_text) ==
    /\ p.current_version = LeftVersionToken(heading_text)
    /\ p.current_heading_text = heading_text
    /\ p.awaiting_root_ul
    /\ p.collecting_warning
    /\ ~p.collecting_changelog
    /\ HasKey(fws, p.current_version)
    /\ fws[IndexOf(fws, p.current_version)] =
          [heading |-> heading_text, version |-> p.current_version,
           release_date |-> HeadingHalves(heading_text)[2],
           warning |-> << >>, tree |-> << >>]

\* Before the changelog heading nothing is captured, whatever is fed.
GatedBefore == ~parser'.in_changelog_section => NothingCaptured(parser', firmwares')

\* C23: for any sequence of heading, list and text events, as long as no
\* heading with the word "Changelog" has ended there is no release record and
\* no release context, so headings with a version token, lists and text are
\* not captured; after the changelog heading, every heading that ends with a
\* version token in its left part and without the word "Changelog" starts a
\* release.
C23_ChangelogGating ==
    [][/\ GatedBefore
       /\ (/\ HeadingCloses
            /\ parser.in_changelog_section
            /\ LeftVersionToken(strip(parser.heading_buffer)) # None
            /\ ~Contains(parser.heading_buffer, CHANGELOG))
           => ReleaseStarted(parser', firmwares', strip(parser.heading_buffer))]_vars

\* C23 witness: after the changelog heading, a heading with a version and a
\* date has just started the release.
C23_Witness ==
    /\ pc = "feed"
    /\ parser.in_changelog_section
    /\ ~parser.in_heading
    /\ Contains(parser.heading_buffer, <<"|">>)
    /\ ReleaseStarted(parser, firmwares, strip(parser.heading_buffer))
    /\ parser.current_release_date # << >>

\* C23 as stated: after the changelog heading, every heading that ends with a
\* version token in its left part starts a release.
C23_EveryVersionHeadingStarts ==
    [][/\ GatedBefore
       /\ (/\ HeadingCloses
            /\ parser.in_changelog_section
            /\ LeftVersionToken(strip(parser.heading_buffer)) # None)
           => ReleaseStarted(parser', firmwares', strip(parser.heading_buffer))]_vars
\* C25: after every event of any sequence, balanced or not, the list depth is
\* not negative, the parser collects a changelog exactly when the depth is at
\* least 1, it never awaits a root list while it collects one, and nodes are
\* open only while it collects.
C25_ParserStateInvariant ==
    /\ parser.changelog_ul_depth >= 0
    /\ parser.collecting_changelog <=> parser.changelog_ul_depth >= 1
    /\ ~(parser.awaiting_root_ul /\ parser.collecting_changelog)
    /\ parser.node_stack # << >> => parser.collecting_changelog

\* C25 witness: inside a list nested in the one open node of a root list.
C25_Witness ==
    /\ pc = "feed"
    /\ parser.collecting_changelog
    /\ parser.changelog_ul_depth = 2
    /\ Len(parser.node_stack) = 1
    /\ ~parser.awaiting_root_ul

Hashes(level) == [k \in 1..level |-> "#"]

\* Lines 324-326: the heading level of a node with children.
HeadingLevel(heading_level_base, depth) ==
    IF heading_level_base + depth > 6 THEN 6 ELSE heading_level_base + depth

\* Line 327: f"{'#' * level} {text}"
HeadingLine(level, text) == Hashes(level) \o <<" ">> \o text

\* Line 330: f"* {text}"
BulletLine(text) == <<"*", " ">> \o text

RECURSIVE walk(_, _, _)
\* Lines 317-330: the lines one node adds, text being its stripped text.
WalkNode(node, text, depth, heading_level_base) ==
    IF text = << >>
    THEN IF node.children # << >>
         THEN walk(node.children, depth + 1, heading_level_base)
         ELSE << >>
    ELSE IF node.children # << >>
    THEN <<HeadingLine(HeadingLevel(heading_level_base, depth), text)>>
         \o walk(node.children, depth + 1, heading_level_base)
    ELSE <<BulletLine(text)>>

\* walk: the lines appended for a list of nodes at a depth.
walk(node_list, depth, heading_level_base) ==
    IF node_list = << >> THEN << >>
    ELSE WalkNode(Head(node_list), strip(Head(node_list).text), depth,
                  heading_level_base)
         \o walk(Tail(node_list), depth, heading_level_base)

\* tree_to_markdown
tree_to_markdown(nodes, heading_level_base) ==
    join(walk(nodes, 0, heading_level_base), <<"\n">>)

\* The texts of the nodes: none, a word, and a word after a blank.
NodeTexts == {<< >>, <<"a">>, <<" ", "b">>}

RECURSIVE NodesOf(_)
\* The nodes with at most the given number of levels.
NodesOf(levels) ==
    IF levels = 1 THEN {[text |-> t, children |-> << >>] : t \in NodeTexts}
    ELSE {[text |-> t, children |-> c] :
             t \in NodeTexts,
             c \in UNION {[1..n -> NodesOf(levels - 1)] : n \in 0..MaxChildren}}

\* The values of heading_level_base: the default, which line 930 passes too,
\* and the largest heading level.
Bases == {3, 6}

\* A release holds a changelog tree that has not been rendered.
InitRender ==
    /\ \E node \in NodesOf(MaxLevels) :
         firmwares = <<[heading |-> << >>, version |-> << >>,
                        release_date |-> << >>, warning |-> << >>,
                        tree |-> <<node>>]>>
    /\ items = << >>
    /\ pc = "tree"
    /\ stable_latest = EmptyMap
    /\ run = 0
    /\ dl = 0
    /\ i = 0
    /\ error = ""
    /\ sdks = EmptyMap
    /\ unavailable = {}
    /\ repo = NoRepo
    /\ pre = NoRepo
    /\ outcome = ""
    /\ run0 = [repo |-> NoRepo, sdks |-> EmptyMap, pc |-> "idle",
               stable_latest |-> EmptyMap]
    /\ called = {}
    /\ parser = NewParser
    /\ events = 0
    /\ fed = << >>
    /\ argv = << >>
    /\ models = << >>
    /\ processed = << >>

\* Line 930: md = tree_to_markdown(fw["tree"], heading_level_base).
TreeToMarkdown ==
    /\ pc = "tree"
    /\ \E heading_level_base \in Bases :
         items' = <<[heading_level_base |-> heading_level_base,
                     md |-> tree_to_markdown(firmwares[1].tree,
                                             heading_level_base)]>>
    /\ pc' = "rendered"
    /\ UNCHANGED <<firmwares, stable_latest, run, dl, i, error, sdks,
                   unavailable, repo, pre, outcome, run0, called>>
    /\ UNCHANGED parserVars
    /\ UNCHANGED mainVars

NextRender == TreeToMarkdown

SpecRender == InitRender /\ [][NextRender]_vars

RECURSIVE LinesAt(_, _, _)
\* The lines of one node as the claim has them: a node without text adds no
\* level, a node with text and children is a heading of the clamped level, a
\* childless node with text is a bullet.
LinesOfNode(node, text, depth, base) ==
    IF text = << >> THEN LinesAt(node.children, depth, base)
    ELSE IF node.children # << >>
    THEN <<Hashes(IF base + depth > 6 THEN 6 ELSE base + depth)
           \o <<" ">> \o text>>
         \o LinesAt(node.children, depth + 1, base)
    ELSE <<<<"*", " ">> \o text>>

\* The lines of a list of nodes at a depth as the claim has them.
LinesAt(node_list, depth, base) ==
    IF node_list = << >> THEN << >>
    ELSE LinesOfNode(Head(node_list), strip(Head(node_list).text), depth, base)
         \o LinesAt(Tail(node_list), depth, base)

\* C24: the rendered text has, in document order, a heading of level
\* base + depth (at most 6) for every node with text and children, a bullet
\* for every childless node with text, and nothing for a node without text,
\* whose children are rendered at the depth of that node.
C24_EmptyNodeAddsNoLevel ==
    pc = "rendered"
    => items[1].md = join(LinesAt(firmwares[1].tree, 0,
                                  items[1].heading_level_base), <<"\n">>)
=============================================================================
